---- MODULE Spec2Model ----
(***************************************************************************)
(* Model of the review pipeline of CREVIOS/revo: webhook ingress           *)
(* (internal/github/webhook.go, server.handleCommand), the in-process      *)
(* deduplicator, the asynq task broker as it is used by the server and the *)
(* worker, the review orchestrator (Reviewer.ProcessReview) and the token  *)
(* bucket limiter.                                                         *)
(*                                                                         *)
(* One repository and one pull request are modelled; keys that the code    *)
(* builds with fmt.Sprintf are modelled as tuples of their arguments.      *)
(* Time is a discrete clock; durations are counted in clock ticks.         *)
(***************************************************************************)
EXTENDS Integers, Sequences, FiniteSets, TLC

\* ---------------------------------------------------------------- bounds
MaxDeliveries == 2
MaxTime == 2
DedupTTL == 1
RefillRate == 2
MaxRetry == 1
Concurrency == 2
MaxCallers == 3
MaxTokens == 2
MaxFaults == 1
MaxInline == 2
MaxRetries == 2
MaxCacheOps == 4
CacheTTL == 1
CacheMaxSize == 2
Getters == 2
\* durations of the Retrier, in units of 50 ms
MinDelay == 2
RetryAfterHint == 20
JitterDen == 2
MaxText == 4
MaxTriples == 2
MaxDiffLen == 5
MaxDiffSize == 4
Waiters == 3
QueuePRs == 2
MaxJobs == 4
MaxQueueLen == 2
QueueWorkers == 2
UnitKeys == 2
MaxMarks == 3
MaxSettles == 2
FailureThreshold == 2
SuccessThreshold == 2
BreakerTimeout == 1
MaxHalfOpen == 1
BreakerCallers == 3
MaxExecutes == 4

\* ------------------------------------------------------------ value sets
SHAs == {"A", "B"}
NoSHA == ""
Modes == {"review", "hunt"}
Words == {"review", "hunt", "bogus", "nomatch"}
EventTypes == {"issue_comment", "pull_request_review_comment", "push"}
HeaderKinds == {"missing", "noprefix", "wrongkey", "wrongbody", "valid"}
Secret == "s3cret"
\* cfg.DedupEnabled: the server was built with a Deduplicator
DedupEnabled == TRUE
Deliveries == 1..MaxDeliveries

VARIABLES
    now,        \* wall clock (ticks)
    head,       \* current head SHA of the pull request at the forge
    req,        \* per delivery: the HTTP request, its response, its handleCommand goroutine
    panicked,   \* the ingress process died from a goroutine panic
    requests,   \* Deduplicator.requests: key -> entry
    reviews,    \* the reviews table, Review.ID = index
    broker,     \* asynq: the task each delivery submitted (with the state of the worker running it)
    tokens,     \* Limiter.tokens
    lastRefill, \* Limiter.lastRefill
    caller,     \* callers of a stand-alone Limiter: "idle" | "waiting" | "holding" | "cancelled"
    faults,     \* collaborator failures so far
    retrier,    \* one run of Retrier.Do: its configuration, position, attempts and waits
    cache,      \* a PromptCache, its counters, and the goroutines inside Get
    run,        \* one execution of ProcessReview taken as a whole: its inputs and what it did
    parsed,     \* one call of ParseStructuredReview: its input text and its result
    trunc,      \* one call of TruncateDiff: its inputs and its result
    zl,         \* a Limiter built by NewLimiter from a configured max_tokens, and its waiters
    queue,      \* the in-process ReviewQueue: channel, activeJobs, jobs, workers
    dedup,      \* a Deduplicator taken on its own: entries, completion handles, its callers' results
    cb          \* a CircuitBreaker and the requests running through Execute

vars == <<now, head, req, panicked, requests, reviews, broker, tokens, lastRefill, caller, faults,
          retrier, cache, run, parsed, trunc, zl, queue, dedup, cb>>
\* The variables of the review pipeline and of the limiter.
pipelineVars == <<head, req, panicked, requests, reviews, broker, tokens, lastRefill, caller, faults>>
\* The variables of the units that are checked on their own.
unitVars == <<run, parsed, trunc, zl, queue, dedup, cb>>

\* ------------------------------------------------------------ signatures
\* hmac.New(sha256.New, secret); mac.Write(body); hex.EncodeToString(mac.Sum(nil))
Hmac(secret, body) == <<"hmac-sha256", secret, body>>

\* The X-Hub-Signature-256 header a sender of the given kind attaches to body.
HeaderFor(kind, body) ==
    CASE kind = "missing"   -> <<>>
      [] kind = "noprefix"  -> <<"", Hmac(Secret, body)>>
      [] kind = "wrongkey"  -> <<"sha256=", Hmac("guess", body)>>
      [] kind = "wrongbody" -> <<"sha256=", Hmac(Secret, <<"tampered", body>>)>>
      [] OTHER              -> <<"sha256=", Hmac(Secret, body)>>

\* verifySignature without the check of the "sha256=" prefix.
verifySignature_NoPrefix(body, signature) ==
    IF signature = <<>> THEN FALSE
    ELSE signature[2] = Hmac(Secret, body)

verifySignature(body, signature) ==
    IF signature = <<>> THEN FALSE
    ELSE IF signature[1] # "sha256=" THEN FALSE
    ELSE signature[2] = Hmac(Secret, body)

\* ------------------------------------------------------- command parsing
\* parseCommand: the regexp match and the switch on the lower-cased mode.
parseCommand(word) ==
    CASE word = "nomatch" -> "none"
      [] word = "hunt"    -> "hunt"
      [] word = "review"  -> "review"
      [] OTHER            -> "review"

\* parseEvent: NoEvent when the event is ignored, else the parsed event.
\* For issue_comment the PullRequest carries only the number (Head = nil).
NoEvent == [etype |-> "", mode |-> "none", evsha |-> ""]
parseEvent(etype, action, hasComment, word, isPR, prHead) ==
    IF etype \notin {"issue_comment", "pull_request_review_comment"} THEN NoEvent
    ELSE IF action # "created" THEN NoEvent
    ELSE IF ~hasComment THEN NoEvent
    ELSE IF parseCommand(word) = "none" THEN NoEvent
    ELSE IF etype = "issue_comment"
         THEN IF isPR THEN [etype |-> etype, mode |-> parseCommand(word), evsha |-> ""]
                      ELSE NoEvent
         ELSE [etype |-> etype, mode |-> parseCommand(word), evsha |-> prHead]

\* ------------------------------------------------------------------ keys
\* dedup.RequestKeyWithMode: "review:%s/%s/%d:%s:%s"
RequestKeyWithMode(owner, repo, pr, sha, mode) == <<"review", owner, repo, pr, sha, mode>>
\* handleCommand: "review:%s/%s/%d" plus ":%s" when commitSHA is not empty
TaskID(owner, repo, pr, sha) ==
    IF sha # NoSHA THEN <<"review", owner, repo, pr, sha>> ELSE <<"review", owner, repo, pr>>
\* The pull request all deliveries are about.
Owner == "acme"
Repo == "widgets"
PRNumber == "7"

DedupKeys == {RequestKeyWithMode(Owner, Repo, PRNumber, s, m) : s \in SHAs \cup {NoSHA}, m \in Modes}

NoEntry == [status |-> "absent", createdAt |-> 0, closed |-> FALSE]
NoTask == [state |-> "absent", id |-> <<>>, sha |-> NoSHA, mode |-> "review", rid |-> 0,
           retried |-> 0, pc |-> "idle", holding |-> FALSE, prHead |-> NoSHA, n |-> 0,
           calls |-> {}, upd |-> "none", wrote |-> FALSE, exit |-> "none", ret |-> "none",
           llmRetries |-> 0, rc |-> 0, landed |-> {}]
NoReq == [resp |-> "unsent", sig |-> "valid", etype |-> "push", mode |-> "review",
          evsha |-> NoSHA, hsha |-> NoSHA, pc |-> "none", eyes |-> FALSE, dup |-> FALSE,
          sha |-> NoSHA, rid |-> 0, enq |-> "no", ret |-> "none", at |-> 0]

\* ---------------------------------------------------------------- inputs
\* An HTTP request to /webhook: method, readability of the body, the kind of
\* signature header, and the JSON payload (action, comment, issue.pull_request).
BaseRequest(etype, word) ==
    [method |-> "POST", readable |-> TRUE, kind |-> "valid", json |-> TRUE, etype |-> etype,
     action |-> "created", hasComment |-> TRUE, word |-> word, isPR |-> TRUE]
Inputs ==
    {BaseRequest(e, w) : e \in EventTypes, w \in Words}
    \cup {[BaseRequest(e, "review") EXCEPT !.kind = k] : e \in {"issue_comment", "pull_request_review_comment"}, k \in HeaderKinds}
    \cup {[BaseRequest("issue_comment", "review") EXCEPT !.method = "GET"],
          [BaseRequest("issue_comment", "review") EXCEPT !.readable = FALSE],
          [BaseRequest("issue_comment", "review") EXCEPT !.json = FALSE],
          [BaseRequest("issue_comment", "review") EXCEPT !.action = "edited"],
          [BaseRequest("issue_comment", "review") EXCEPT !.hasComment = FALSE],
          [BaseRequest("issue_comment", "review") EXCEPT !.isPR = FALSE]}

BodyOf(in, prHead) == <<in.json, in.action, in.hasComment, in.word, in.isPR, prHead>>

\* Collaborator failures (store, forge, broker, tool, context cancellation)
\* are drawn nondeterministically, at most MaxFaults of them in one run.
Cost(ok) == IF ok THEN 0 ELSE 1

\* Prompts given to the cache (hashKey is injective on them).
Prompts == {"p1", "p2", "p3"}
\* cacheEntry; oid tells the entry objects apart that a key has held.
NoCacheEntry == [oid |-> 0, response |-> "", createdAt |-> 0, accessedAt |-> 0]
\* A goroutine that is not inside Get.
NoGet == [pc |-> "idle", key |-> "", snap |-> NoCacheEntry, found |-> FALSE, response |-> ""]
\* NewPromptCache: no entries, counters at zero.
NewPromptCache ==
    [entries |-> [k \in Prompts |-> NoCacheEntry], hits |-> 0, misses |-> 0, evictions |-> 0,
     ops |-> 0, get |-> [g \in 1..Getters |-> NoGet]]

\* Retrier.Do not yet called.
NoRun == [pc |-> "idle", cfg |-> [maxRetries |-> 0, initial |-> 1, maxDelay |-> 6, mult |-> 2, jit |-> 0],
          attempt |-> 0, outs |-> <<>>, delays |-> <<>>, delay |-> 0, result |-> <<>>]

\* NewLimiter not yet called.
NoLimiter == [pc |-> "none", cfg |-> 0, maxTokens |-> 0, tokens |-> 0, lastRefill |-> 0,
              w |-> [c \in 1..Waiters |-> "idle"], ctx |-> [c \in 1..Waiters |-> FALSE]]

\* NewReviewQueue: an empty channel, no active job, idle workers. job holds
\* every ReviewJob made so far; activeJobs maps a job ID (one per pull
\* request) to a job, 0 for none.
NoJob == [state |-> "none", pr |-> 0, cancelled |-> FALSE]
NewReviewQueue ==
    [jobs |-> <<>>, activeJobs |-> [p \in 1..QueuePRs |-> 0], job |-> [j \in 1..MaxJobs |-> NoJob],
     made |-> 0, worker |-> [w \in 1..QueueWorkers |-> 0]]

\* No execution of ProcessReview has been taken yet.
NoExecution == [pc |-> "idle", rid |-> 0, env |-> <<>>, store |-> <<>>, out |-> <<>>]

\* requestEntry of a key without an entry; done names the entry's channel.
NoRequestEntry == [status |-> "absent", createdAt |-> 0, done |-> 0]

\* dedup.New: no entries; made counts the channels made so far, closed holds
\* the closed ones, marks records what each CheckAndMark call returned.
NewDeduplicator ==
    [requests |-> [k \in 1..UnitKeys |-> NoRequestEntry], made |-> 0, closed |-> {},
     panicked |-> FALSE, marks |-> <<>>, settles |-> 0]

\* breaker.New: closed, all counters zero. call holds, per goroutine, where
\* it is in Execute and in which half-open period it was admitted (0: it was
\* admitted while the breaker was closed); period counts the half-open periods.
NewCircuitBreaker ==
    [state |-> "closed", failureCount |-> 0, successCount |-> 0, lastFailure |-> 0,
     halfOpenCount |-> 0, period |-> 0, executes |-> 0,
     call |-> [c \in 1..BreakerCallers |-> [pc |-> "idle", period |-> 0]]]

\* ------------------------------------------------------------------ Init
\* The state after construction of everything but the inputs of the pure
\* functions that are checked on their own.
InitSystem ==
    /\ now = 0
    /\ head = "A"
    /\ req = [d \in Deliveries |-> NoReq]
    /\ panicked = FALSE
    /\ requests = [k \in DedupKeys |-> NoEntry]
    /\ reviews = <<>>
    /\ broker = [t \in Deliveries |-> NoTask]
    /\ tokens = MaxTokens
    /\ lastRefill = 0
    /\ caller = [c \in 1..MaxCallers |-> "idle"]
    /\ faults = 0
    /\ retrier = NoRun
    /\ cache = NewPromptCache
    /\ run = NoExecution
    /\ zl = NoLimiter
    /\ queue = NewReviewQueue
    /\ dedup = NewDeduplicator
    /\ cb = NewCircuitBreaker

\* ParseStructuredReview not yet given a text.
NoParse == [pc |-> "idle", triples |-> <<>>, bad |-> <<>>, text |-> <<>>, summary |-> <<>>,
            comments |-> <<>>]

\* TruncateDiff not yet called.
NoTruncate == [pc |-> "idle", diff |-> <<>>, maxSize |-> 0, out |-> <<>>]

Init ==
    /\ InitSystem
    /\ parsed = NoParse
    /\ trunc = NoTruncate

\* ----------------------------------------------------------------- store
\* An UpdateReview that records the processing update only.
UpdateReview_ProcessingOnly(rows, id, status, ok) ==
    IF ok /\ id \in 1..Len(rows) /\ status = "processing"
    THEN [rows EXCEPT ![id].status = status] ELSE rows

\* Store.UpdateReview(id, {"status": status, ...}); ok = the write succeeded.
UpdateReview(rows, id, status, ok) ==
    IF ok /\ id \in 1..Len(rows) THEN [rows EXCEPT ![id].status = status] ELSE rows

\* ----------------------------------------------------------- environment
Tick ==
    /\ now < MaxTime
    /\ now' = now + 1
    /\ UNCHANGED <<retrier, cache, unitVars, head, req, panicked, requests, reviews, broker, tokens, lastRefill, caller, faults>>

\* A new commit is pushed to the pull request.
HeadAdvance ==
    /\ head = "A"
    /\ head' = "B"
    /\ UNCHANGED <<retrier, cache, unitVars, now, req, panicked, requests, reviews, broker, tokens, lastRefill, caller, faults>>

\* --------------------------------------------------------------- ingress
\* HandleWebhook answering 202 for an event that carries no command.
Dispatch_AckAll(in, prHead) ==
    LET body == BodyOf(in, prHead)
        ev == parseEvent(in.etype, in.action, in.hasComment, in.word, in.isPR, prHead)
        r0 == [NoReq EXCEPT !.sig = in.kind]
    IN IF in.method # "POST" THEN [r0 EXCEPT !.resp = "405"]
       ELSE IF ~in.readable THEN [r0 EXCEPT !.resp = "400"]
       ELSE IF ~verifySignature(body, HeaderFor(in.kind, body)) THEN [r0 EXCEPT !.resp = "401"]
       ELSE IF ~in.json THEN [r0 EXCEPT !.resp = "400"]
       ELSE IF ev = NoEvent THEN [r0 EXCEPT !.resp = "pending"]
       ELSE [r0 EXCEPT !.resp = "pending", !.etype = ev.etype, !.mode = ev.mode,
                       !.evsha = ev.evsha, !.hsha = prHead, !.pc = "react"]

\* The gates of HandleWebhook on request in while the PR head is prHead: the
\* error response, or the command goroutine started ("pending": 202 not yet written).
Dispatch(in, prHead) ==
    LET body == BodyOf(in, prHead)
        ev == parseEvent(in.etype, in.action, in.hasComment, in.word, in.isPR, prHead)
        r0 == [NoReq EXCEPT !.sig = in.kind]
    IN IF in.method # "POST" THEN [r0 EXCEPT !.resp = "405"]
       ELSE IF ~in.readable THEN [r0 EXCEPT !.resp = "400"]
       ELSE IF ~verifySignature(body, HeaderFor(in.kind, body)) THEN [r0 EXCEPT !.resp = "401"]
       ELSE IF ~in.json THEN [r0 EXCEPT !.resp = "400"]
       ELSE IF ev = NoEvent THEN [r0 EXCEPT !.resp = "200"]
       ELSE [r0 EXCEPT !.resp = "pending", !.etype = ev.etype, !.mode = ev.mode,
                       !.evsha = ev.evsha, !.hsha = prHead, !.pc = "react"]

\* WebhookHandler.HandleWebhook up to the start of the command goroutine.
HandleWebhook(d, in) ==
    /\ ~panicked
    /\ req[d].resp = "unsent"
    /\ (IF d = 1 THEN TRUE ELSE req[d - 1].resp # "unsent")
    /\ req' = [req EXCEPT ![d] = Dispatch(in, head)]
    /\ UNCHANGED <<retrier, cache, unitVars, now, head, panicked, requests, reviews, broker, tokens, lastRefill, caller, faults>>

\* HandleWebhook after the go statement: w.WriteHeader(http.StatusAccepted).
WriteAccepted(d) ==
    /\ ~panicked
    /\ req[d].resp = "pending"
    /\ req' = [req EXCEPT ![d].resp = "202"]
    /\ UNCHANGED <<retrier, cache, unitVars, now, head, panicked, requests, reviews, broker, tokens, lastRefill, caller, faults>>

\* handleCommand: the eyes reaction (best effort, its error is only logged).
HC_React(d) ==
    /\ ~panicked
    /\ req[d].pc = "react"
    /\ req' = [req EXCEPT ![d].eyes = TRUE, ![d].pc = IF DedupEnabled THEN "dedup" ELSE "persist"]
    /\ UNCHANGED <<retrier, cache, unitVars, now, head, panicked, requests, reviews, broker, tokens, lastRefill, caller, faults>>

\* Deduplicator.CheckAndMark: <<isDuplicate, requests'>>
CheckAndMark(reqs, key, t) ==
    IF reqs[key].status # "absent" /\ ~(t - reqs[key].createdAt > DedupTTL)
    THEN <<TRUE, reqs>>
    ELSE <<FALSE, [reqs EXCEPT ![key] = [status |-> "pending", createdAt |-> t, closed |-> FALSE]]>>

\* The dedup key handleCommand uses: the SHA of the event's PullRequest.Head, "" without one.
DedupKeyOf(r) == RequestKeyWithMode(Owner, Repo, PRNumber, r.evsha, r.mode)

\* handleCommand: the deduper gate.
HC_Dedup(d) ==
    /\ ~panicked
    /\ req[d].pc = "dedup"
    /\ LET res == CheckAndMark(requests, DedupKeyOf(req[d]), now)
       IN /\ requests' = res[2]
          /\ req' = [req EXCEPT ![d].dup = res[1], ![d].at = now,
                                 ![d].pc = IF res[1] THEN "done" ELSE "persist",
                                 ![d].ret = IF res[1] THEN "nil" ELSE "none"]
    /\ UNCHANGED <<retrier, cache, unitVars, now, head, panicked, reviews, broker, tokens, lastRefill, caller, faults>>

\* handleCommand never assigning event.ReviewID.
ReviewIDOf_Unassigned(created, rows) == 0

\* handleCommand: event.ReviewID after CreateReview, 0 when the insert failed.
ReviewIDOf(created, rows) == IF created THEN Len(rows) + 1 ELSE 0

\* handleCommand: resolve the commit SHA (GetPullRequest when the event has
\* none) and insert the Review row.
HC_Persist(d) ==
    /\ ~panicked
    /\ req[d].pc = "persist"
    /\ \E fetched \in BOOLEAN, created \in BOOLEAN :
         LET sha == IF req[d].evsha # NoSHA THEN req[d].evsha
                    ELSE IF fetched THEN head ELSE NoSHA
             row == [d |-> d, sha |-> sha, mode |-> req[d].mode, status |-> "queued", queuedAt |-> now,
                     retryCount |-> 0]
         IN /\ req[d].evsha # NoSHA => fetched
            /\ faults + Cost(fetched) + Cost(created) <= MaxFaults
            /\ faults' = faults + Cost(fetched) + Cost(created)
            /\ reviews' = IF created THEN Append(reviews, row) ELSE reviews
            /\ req' = [req EXCEPT ![d].sha = sha, ![d].pc = "enqueue",
                                   ![d].rid = ReviewIDOf(created, reviews)]
    /\ UNCHANGED <<retrier, cache, unitVars, now, head, panicked, requests, broker, tokens, lastRefill, caller>>

\* A Complete that deletes the entry instead of marking it.
Complete_Remove(reqs, key) == <<FALSE, [reqs EXCEPT ![key] = NoEntry]>>

\* Deduplicator.Complete: <<panics, requests'>>; close of a closed channel panics.
Complete(reqs, key) ==
    IF reqs[key].status = "absent" THEN <<FALSE, reqs>>
    ELSE <<reqs[key].closed, [reqs EXCEPT ![key].status = "completed", ![key].closed = TRUE]>>

\* asynq Client.Enqueue with asynq.TaskID: a task with that ID is present -> conflict.
EnqueueResult(b, tid, up) ==
    IF ~up THEN "error"
    ELSE IF \E x \in DOMAIN b : b[x].state # "absent" /\ b[x].id = tid THEN "conflict"
    ELSE "ok"

\* Enqueue without the asynq.TaskID option: asynq draws a fresh ID per task.
TaskIDOption_Fresh(d) == <<"uuid", d>>

\* handleCommand: the asynq.TaskID option of the Enqueue call of delivery d.
TaskIDOption(d) == TaskID(Owner, Repo, PRNumber, req[d].sha)

\* handleCommand treating a duplicate task like any other enqueue error.
EnqueueFailureStatus_Failed(res) == "failed"

\* handleCommand: the status written to the Review row after an enqueue error:
\* cancelled for ErrDuplicateTask / ErrTaskIDConflict, failed otherwise.
EnqueueFailureStatus(res) == IF res = "conflict" THEN "cancelled" ELSE "failed"

\* handleCommand: build the task, enqueue it, settle the Review row on an
\* enqueue error, and run the deferred Complete of the dedup entry.
HC_Enqueue(d) ==
    /\ ~panicked
    /\ req[d].pc = "enqueue"
    /\ \E up \in BOOLEAN, ok \in BOOLEAN :
         LET tid == TaskIDOption(d)
             res == EnqueueResult(broker, tid, up)
             cmp == IF DedupEnabled THEN Complete(requests, DedupKeyOf(req[d])) ELSE <<FALSE, requests>>
         IN /\ (res = "ok" \/ req[d].rid = 0) => ok
            /\ faults + Cost(up) + Cost(ok) <= MaxFaults
            /\ faults' = faults + Cost(up) + Cost(ok)
            /\ broker' = IF res = "ok"
                          THEN [broker EXCEPT ![d] = [NoTask EXCEPT !.state = "pending", !.id = tid,
                                                       !.sha = req[d].sha, !.mode = req[d].mode,
                                                       !.rid = req[d].rid]]
                          ELSE broker
            /\ reviews' = IF res = "ok" THEN reviews
                          ELSE UpdateReview(reviews, req[d].rid, EnqueueFailureStatus(res), ok)
            /\ requests' = cmp[2]
            /\ panicked' = cmp[1]
            /\ req' = [req EXCEPT ![d].pc = "done", ![d].enq = res,
                                   ![d].ret = IF res = "error" THEN "err" ELSE "nil"]
    /\ UNCHANGED <<retrier, cache, unitVars, now, head, tokens, lastRefill, caller>>

\* Deduplicator.cleanup, run by cleanupLoop.
DedupCleanup ==
    /\ ~panicked
    /\ DedupEnabled
    /\ \E k \in DedupKeys : requests[k].status # "absent" /\ now - requests[k].createdAt > DedupTTL
    /\ requests' = [k \in DedupKeys |->
                      IF requests[k].status # "absent" /\ now - requests[k].createdAt > DedupTTL
                      THEN NoEntry ELSE requests[k]]
    /\ UNCHANGED <<retrier, cache, unitVars, now, head, req, panicked, reviews, broker, tokens, lastRefill, caller, faults>>

\* --------------------------------------------------------------- limiter
Min(a, b) == IF a < b THEN a ELSE b

\* A tryAcquire that takes two tokens at a time.
tryAcquireMax_Two(tok, last, t, max) ==
    LET tokensToAdd == (t - last) \div RefillRate
        tok1 == IF tokensToAdd > 0 THEN Min(tok + tokensToAdd, max) ELSE tok
        last1 == IF tokensToAdd > 0 THEN t ELSE last
    IN IF tok1 > 0 THEN <<TRUE, tok1 - 2, last1>> ELSE <<FALSE, tok1, last1>>

\* Limiter.tryAcquire at time t on a limiter with maxTokens = max:
\* <<acquired, tokens', lastRefill'>>
tryAcquireMax(tok, last, t, max) ==
    LET tokensToAdd == (t - last) \div RefillRate
        tok1 == IF tokensToAdd > 0 THEN Min(tok + tokensToAdd, max) ELSE tok
        last1 == IF tokensToAdd > 0 THEN t ELSE last
    IN IF tok1 > 0 THEN <<TRUE, tok1 - 1, last1>> ELSE <<FALSE, tok1, last1>>

\* Limiter.tryAcquire on the limiter of the pipeline.
tryAcquire(tok, last, t) == tryAcquireMax(tok, last, t, MaxTokens)

\* Limiter.Release on a limiter with maxTokens = max.
ReleaseMax(tok, max) == IF tok < max THEN tok + 1 ELSE tok

\* Limiter.Release on the limiter of the pipeline.
Release(tok) == ReleaseMax(tok, MaxTokens)

\* NewLimiter(maxTokens, refillRate) at time t: a value <= 0 is replaced by
\* the default.
NewLimiter(maxTokens, t) ==
    LET m == IF maxTokens <= 0 THEN MaxTokens ELSE maxTokens
    IN [maxTokens |-> m, tokens |-> m, lastRefill |-> t]

\* ---------------------------------------------------------------- worker
\* Tasks a worker goroutine of the asynq server is busy with.
Active == {t \in Deliveries : broker[t].state \in {"active", "returned"}}

\* ProcessReview returns: the deferred Release runs when a token is held.
Return(t, exit, ret, calls, upd, ok) ==
    [broker EXCEPT ![t].state = "returned", ![t].exit = exit, ![t].ret = ret,
                   ![t].calls = calls, ![t].holding = FALSE,
                   ![t].upd = IF broker[t].rid > 0 THEN upd ELSE @,
                   ![t].wrote = IF broker[t].rid > 0 THEN ok ELSE @]

\* postError with a context that is never done.
PostErrorLands_Background(kind) == TRUE

\* postError passes ProcessReview's ctx to AddReaction and CreateComment: after
\* a context error that ctx is done, and the forge client sends nothing.
PostErrorLands(kind) == kind # "cancel"

\* The fail closure returning the error without calling postError.
Fail_NoPostError(t, kind, made, nf) ==
    \E ok \in BOOLEAN :
        LET status == IF kind = "cancel" THEN "cancelled" ELSE "failed"
        IN /\ broker[t].rid = 0 => ok
           /\ faults + nf + Cost(ok) <= MaxFaults
           /\ faults' = faults + nf + Cost(ok)
           /\ reviews' = UpdateReview(reviews, broker[t].rid, status, ok)
           /\ tokens' = IF broker[t].holding THEN Release(tokens) ELSE tokens
           /\ broker' = Return(t, status, "err", broker[t].calls \cup made, status, ok)
           /\ UNCHANGED <<retrier, cache, unitVars, now, head, req, panicked, requests, lastRefill, caller>>

\* ProcessReview's fail closure and postError: the Review becomes cancelled
\* for a context error and failed otherwise, a confused reaction and an error
\* comment are attempted, and the wrapped error is returned. nf = the
\* failures that led here.
Fail(t, kind, made, nf) ==
    \E ok \in BOOLEAN :
        LET status == IF kind = "cancel" THEN "cancelled" ELSE "failed"
        IN /\ broker[t].rid = 0 => ok
           /\ faults + nf + Cost(ok) <= MaxFaults
           /\ faults' = faults + nf + Cost(ok)
           /\ reviews' = UpdateReview(reviews, broker[t].rid, status, ok)
           /\ tokens' = IF broker[t].holding THEN Release(tokens) ELSE tokens
           /\ broker' = [Return(t, status, "err", broker[t].calls \cup made \cup {"confused", "errcomment"}, status, ok)
                            EXCEPT ![t].landed = IF PostErrorLands(kind) THEN {"confused", "errcomment"} ELSE {}]
           /\ UNCHANGED <<retrier, cache, unitVars, now, head, req, panicked, requests, lastRefill, caller>>

\* The asynq server leases a task to a worker, which calls the handler;
\* ProcessReview marks the Review processing and adds the eyes reaction.
W_Start(t) ==
    /\ broker[t].state \in {"pending", "retry"}
    /\ Cardinality(Active) < Concurrency
    /\ \E ok \in BOOLEAN :
         /\ broker[t].rid = 0 => ok
         /\ faults + Cost(ok) <= MaxFaults
         /\ faults' = faults + Cost(ok)
         /\ reviews' = UpdateReview(reviews, broker[t].rid, "processing", ok)
         /\ broker' = [broker EXCEPT ![t].state = "active", ![t].pc = "fetchpr", ![t].calls = {"eyes"},
                                     ![t].upd = IF broker[t].rid > 0 THEN "processing" ELSE @,
                                     ![t].wrote = IF broker[t].rid > 0 THEN ok ELSE @]
    /\ UNCHANGED <<retrier, cache, unitVars, now, head, req, panicked, requests, tokens, lastRefill, caller>>

\* The stale-commit check switched off.
IsStale_Never(expectedSHA, prHead) == FALSE

\* The stale-commit check with the comparison inverted.
IsStale_Inverted(expectedSHA, prHead) == expectedSHA # NoSHA /\ prHead = expectedSHA

\* ProcessReview: expectedSHA != "" && pr.GetHead().GetSHA() != expectedSHA
IsStale(expectedSHA, prHead) == expectedSHA # NoSHA /\ prHead # expectedSHA

\* ProcessReview: GetPullRequest and the stale-commit check.
W_FetchPR(t) ==
    /\ broker[t].state = "active" /\ broker[t].pc = "fetchpr"
    /\ \E out \in {"ok", "err", "cancel"} :
         IF out # "ok" THEN Fail(t, out, {"getpr"}, 1)
         ELSE IF IsStale(broker[t].sha, head)
         THEN \E ok \in BOOLEAN :
                /\ broker[t].rid = 0 => ok
                /\ faults + Cost(ok) <= MaxFaults
                /\ faults' = faults + Cost(ok)
                /\ reviews' = UpdateReview(reviews, broker[t].rid, "cancelled", ok)
                /\ broker' = Return(t, "stale", "nil", broker[t].calls \cup {"getpr"}, "cancelled", ok)
                /\ UNCHANGED <<retrier, cache, unitVars, now, head, req, panicked, requests, tokens, lastRefill, caller>>
         ELSE /\ broker' = [broker EXCEPT ![t].pc = "fetchdiff", ![t].prHead = head,
                                           ![t].calls = @ \cup {"getpr"}]
              /\ UNCHANGED <<retrier, cache, unitVars, now, head, req, panicked, requests, reviews, tokens, lastRefill, caller, faults>>

\* ProcessReview: GetPullRequestDiff, GetPullRequestFiles, GatherContext.
W_FetchDiff(t) ==
    /\ broker[t].state = "active" /\ broker[t].pc = "fetchdiff"
    /\ \E out \in {"ok", "err", "cancel"}, at \in {{"diff"}, {"diff", "files"}} :
         IF out # "ok" THEN Fail(t, out, at, 1)
         ELSE /\ at = {"diff", "files"}
              /\ broker' = [broker EXCEPT ![t].pc = "wait", ![t].calls = @ \cup {"diff", "files", "context"}]
              /\ UNCHANGED <<retrier, cache, unitVars, now, head, req, panicked, requests, reviews, tokens, lastRefill, caller, faults>>

\* ProcessReview: rateLimiter.Wait, one round of its polling loop: a token is
\* taken, or the context is found cancelled.
W_Wait(t) ==
    /\ broker[t].state = "active" /\ broker[t].pc = "wait"
    /\ LET res == tryAcquire(tokens, lastRefill, now)
       IN IF res[1]
          THEN /\ tokens' = res[2]
               /\ lastRefill' = res[3]
               /\ broker' = [broker EXCEPT ![t].pc = "llm", ![t].holding = TRUE, ![t].calls = @ \cup {"wait"}]
               /\ UNCHANGED <<retrier, cache, unitVars, now, head, req, panicked, requests, reviews, caller, faults>>
          ELSE Fail(t, "cancel", {"wait"}, 1)

\* ProcessReview: claudeClient.ReviewCode; n is the number of inline comments
\* ParseStructuredReview finds in the response, k the number of retries the
\* client's Retrier made before the tool answered.
W_LLM(t) ==
    /\ broker[t].state = "active" /\ broker[t].pc = "llm"
    /\ \E out \in {"ok", "err", "cancel"}, n \in 0..MaxInline, k \in 0..1 :
         IF out # "ok" THEN n = 0 /\ k = 0 /\ Fail(t, out, {"llm"}, 1)
         ELSE /\ faults + k <= MaxFaults
              /\ faults' = faults + k
              /\ broker' = [broker EXCEPT ![t].pc = "post", ![t].n = n, ![t].llmRetries = k,
                                          ![t].calls = @ \cup {"llm"}]
              /\ UNCHANGED <<retrier, cache, unitVars, now, head, req, panicked, requests, reviews, tokens, lastRefill, caller>>

\* ProcessReview: post the review (inline review, or a regular comment as the
\* fallback and when there is no inline comment), add the rocket reaction,
\* mark the Review completed and return nil.
W_Post(t) ==
    /\ broker[t].state = "active" /\ broker[t].pc = "post"
    /\ \E reviewOK \in BOOLEAN, commentOut \in {"ok", "err", "cancel"}, ok \in BOOLEAN :
         LET inline == broker[t].n > 0
             viaReview == inline /\ reviewOK
             calls == broker[t].calls
                      \cup (IF inline THEN {"review"} ELSE {})
                      \cup (IF viaReview THEN {} ELSE {"comment"})
             commentsPosted == IF viaReview THEN broker[t].n ELSE 1
             rc == IF inline /\ broker[t].rid > 0 /\ commentsPosted = broker[t].n THEN broker[t].n ELSE 0
         IN /\ ~inline => reviewOK
            /\ viaReview => commentOut = "ok"
            /\ IF ~viaReview /\ commentOut # "ok"
               THEN ok /\ Fail(t, commentOut, calls, Cost(~inline \/ reviewOK) + 1)
               ELSE /\ broker[t].rid = 0 => ok
                    /\ faults + Cost(~inline \/ reviewOK) + Cost(ok) <= MaxFaults
                    /\ faults' = faults + Cost(~inline \/ reviewOK) + Cost(ok)
                    /\ reviews' = UpdateReview(reviews, broker[t].rid, "completed", ok)
                    /\ tokens' = IF broker[t].holding THEN Release(tokens) ELSE tokens
                    /\ broker' = [Return(t, "completed", "nil", calls \cup {"rocket"}, "completed", ok)
                                     EXCEPT ![t].rc = rc]
                    /\ UNCHANGED <<retrier, cache, unitVars, now, head, req, panicked, requests, lastRefill, caller>>

\* asynq after the handler returned: nil deletes the task, an error schedules
\* a retry until MaxRetry is used up, then the task is archived.
HandlerReturned(b, t) ==
    IF b[t].ret = "nil" THEN [b EXCEPT ![t] = NoTask]
    ELSE [b EXCEPT ![t] = [NoTask EXCEPT !.id = b[t].id, !.sha = b[t].sha, !.mode = b[t].mode, !.rid = b[t].rid,
                                         !.state = IF b[t].retried < MaxRetry THEN "retry" ELSE "archived",
                                         !.retried = IF b[t].retried < MaxRetry THEN b[t].retried + 1
                                                     ELSE b[t].retried]]

B_Settle(t) ==
    /\ broker[t].state = "returned"
    /\ broker' = HandlerReturned(broker, t)
    /\ UNCHANGED <<retrier, cache, unitVars, now, head, req, panicked, requests, reviews, tokens, lastRefill, caller, faults>>

\* ---------------------------------------------------- stand-alone limiter
\* Callers of Wait and Release on one Limiter.
L_Wait(c) ==
    /\ caller[c] = "idle"
    /\ caller' = [caller EXCEPT ![c] = "waiting"]
    /\ UNCHANGED <<retrier, cache, unitVars, now, head, req, panicked, requests, reviews, broker, tokens, lastRefill, faults>>

\* One round of the polling loop of Wait.
L_Poll(c) ==
    /\ caller[c] = "waiting"
    /\ LET res == tryAcquire(tokens, lastRefill, now)
       IN IF res[1]
          THEN /\ tokens' = res[2]
               /\ lastRefill' = res[3]
               /\ caller' = [caller EXCEPT ![c] = "holding"]
          ELSE /\ caller' = [caller EXCEPT ![c] = "cancelled"]
               /\ UNCHANGED <<retrier, cache, unitVars, tokens, lastRefill>>
    /\ UNCHANGED <<retrier, cache, unitVars, now, head, req, panicked, requests, reviews, broker, faults>>

L_Release(c) ==
    /\ caller[c] = "holding"
    /\ tokens' = Release(tokens)
    /\ caller' = [caller EXCEPT ![c] = "idle"]
    /\ UNCHANGED <<retrier, cache, unitVars, now, head, req, panicked, requests, reviews, broker, lastRefill, faults>>

\* --------------------------------------------------------------- retrier
\* Errors the retried operation returns, by what isRetryable finds in them.
ErrKinds == {"rate_limited", "rate_limited_hint", "deadline", "canceled", "exit_status"}

\* Retrier.isRetryable
isRetryable(err) ==
    err \in {"rate_limited", "rate_limited_hint", "server_error", "deadline",
             "connection", "overloaded"}

\* Retrier.extractRetryAfter: the hinted duration, 0 without a hint.
extractRetryAfter(err) == IF err = "rate_limited_hint" THEN RetryAfterHint ELSE 0

Max(a, b) == IF a > b THEN a ELSE b

RECURSIVE Pow(_, _)
Pow(b, e) == IF e = 0 THEN 1 ELSE b * Pow(b, e - 1)

\* A jitter drawn from twice the width.
Jitter_Double(lo, width) == lo..(lo + 2 * width)

\* The values rng.Float64() * width + lo can take, for rng.Float64() in [0, 1).
Jitter(lo, width) == IF width = 0 THEN {lo} ELSE lo..(lo + width - 1)

\* calculateDelay without the cap at MaxDelay.
calculateDelay_NoCap(cfg, attempt, err) ==
    IF extractRetryAfter(err) > 0
    THEN {extractRetryAfter(err) + j : j \in Jitter(0, extractRetryAfter(err) \div 10)}
    ELSE LET delay == cfg.initial * Pow(cfg.mult, attempt)
             jitterRange == (delay * cfg.jit) \div JitterDen
         IN {Max(delay + j, MinDelay) : j \in Jitter(0 - jitterRange, 2 * jitterRange)}

\* Retrier.calculateDelay: the delays it can return for the 0-based attempt.
calculateDelay(cfg, attempt, err) ==
    IF extractRetryAfter(err) > 0
    THEN {extractRetryAfter(err) + j : j \in Jitter(0, extractRetryAfter(err) \div 10)}
    ELSE LET delay == Min(cfg.initial * Pow(cfg.mult, attempt), cfg.maxDelay)
             jitterRange == (delay * cfg.jit) \div JitterDen
         IN {Max(delay + j, MinDelay) : j \in Jitter(0 - jitterRange, 2 * jitterRange)}

\* Retrier.Do giving up one attempt early.
IsLastAttempt_Early(attempt, maxRetries) == attempt + 1 >= maxRetries

\* Retrier.Do: attempt == r.config.MaxRetries
IsLastAttempt(attempt, maxRetries) == attempt = maxRetries

\* Configurations of a Retrier (retry.Config).
RetryConfigs ==
    [maxRetries : 0..MaxRetries, initial : {1, 4}, maxDelay : {6}, mult : {2}, jit : {0, 1}]

\* A caller starts Retrier.Do with a configuration.
R_Start(cfg) ==
    /\ retrier.pc = "idle"
    /\ retrier' = [retrier EXCEPT !.pc = "call", !.cfg = cfg]
    /\ UNCHANGED <<now, cache, pipelineVars, unitVars>>

\* Retrier.Do: one pass of the loop, from the call of fn to the return or to
\* the start of the wait for the chosen delay.
R_Attempt(out) ==
    /\ retrier.pc = "call"
    /\ LET outs == Append(retrier.outs, out)
           k == Len(outs)
       IN IF out = "ok"
          THEN retrier' = [retrier EXCEPT !.outs = outs, !.pc = "done", !.result = <<"nil">>]
          ELSE IF ~isRetryable(out)
          THEN retrier' = [retrier EXCEPT !.outs = outs, !.pc = "done", !.result = <<"err", k>>]
          ELSE IF IsLastAttempt(retrier.attempt, retrier.cfg.maxRetries)
          THEN retrier' = [retrier EXCEPT !.outs = outs, !.pc = "done",
                                          !.result = <<"join", "ErrMaxRetries", k>>]
          ELSE \E d \in calculateDelay(retrier.cfg, retrier.attempt, out) :
                  retrier' = [retrier EXCEPT !.outs = outs, !.pc = "wait", !.delay = d]
    /\ UNCHANGED <<now, cache, pipelineVars, unitVars>>

\* Retrier.Do: the select, time.After(delay) fires.
R_Wake ==
    /\ retrier.pc = "wait"
    /\ retrier' = [retrier EXCEPT !.pc = "call", !.attempt = @ + 1,
                                  !.delays = Append(@, retrier.delay), !.delay = 0]
    /\ UNCHANGED <<now, cache, pipelineVars, unitVars>>

\* Retrier.Do: the select, ctx.Done() fires first.
R_Cancel ==
    /\ retrier.pc = "wait"
    /\ retrier' = [retrier EXCEPT !.pc = "done", !.result = <<"ctx.Err">>, !.delay = 0]
    /\ UNCHANGED <<now, cache, pipelineVars, unitVars>>

RetryNext ==
    \/ \E cfg \in RetryConfigs : R_Start(cfg)
    \/ \E out \in ErrKinds \cup {"ok"} : R_Attempt(out)
    \/ R_Wake
    \/ R_Cancel

SpecRetry == Init /\ [][RetryNext]_vars

\* ----------------------------------------------------------------- cache
\* The keys the map holds.
CacheKeys(entries) == {k \in Prompts : entries[k].oid # 0}

\* evictOldest choosing among the entries accessed last.
EvictCandidates_Newest(entries) ==
    {k \in CacheKeys(entries) :
        \A j \in CacheKeys(entries) : entries[j].accessedAt <= entries[k].accessedAt}

\* evictOldest: the keys the loop over the map can end on, whatever the
\* iteration order: those whose accessedAt no other entry is before.
EvictCandidates(entries) ==
    {k \in CacheKeys(entries) :
        \A j \in CacheKeys(entries) : entries[k].accessedAt <= entries[j].accessedAt}

\* Get with the expiry check switched off.
IsExpired_Never(createdAt, t) == FALSE

\* Get and cleanup: time.Since(entry.createdAt) > c.ttl
IsExpired(createdAt, t) == t - createdAt > CacheTTL

\* PromptCache.Set (one critical section).
C_Set(k, response) ==
    /\ cache.ops < MaxCacheOps
    /\ \E victim \in (IF Cardinality(CacheKeys(cache.entries)) >= CacheMaxSize
                      THEN EvictCandidates(cache.entries) ELSE {"none"}) :
         LET evicted == IF victim = "none" THEN cache.entries
                        ELSE [cache.entries EXCEPT ![victim] = NoCacheEntry]
             entry == [oid |-> cache.ops + 1, response |-> response, createdAt |-> now,
                       accessedAt |-> now]
         IN cache' = [cache EXCEPT !.entries = [evicted EXCEPT ![k] = entry],
                                   !.evictions = IF victim = "none" THEN @ ELSE @ + 1,
                                   !.ops = @ + 1]
    /\ UNCHANGED <<now, retrier, pipelineVars, unitVars>>

\* PromptCache.Get, first critical section: the map lookup under RLock.
C_GetLookup(g, k) ==
    /\ cache.ops < MaxCacheOps
    /\ cache.get[g].pc = "idle"
    /\ cache' = [cache EXCEPT !.get[g] = [NoGet EXCEPT !.pc = "looked", !.key = k,
                                                         !.snap = cache.entries[k]],
                              !.ops = @ + 1]
    /\ UNCHANGED <<now, retrier, pipelineVars, unitVars>>

\* PromptCache.Get, the rest: a miss, an expired entry (deleted by key), or a
\* hit that updates the entry object found by the lookup.
C_GetFinish(g) ==
    /\ cache.get[g].pc = "looked"
    /\ LET k == cache.get[g].key
           e == cache.get[g].snap
       IN IF e.oid = 0
          THEN cache' = [cache EXCEPT !.misses = @ + 1, !.get[g].pc = "done"]
          ELSE IF IsExpired(e.createdAt, now)
          THEN cache' = [cache EXCEPT !.entries[k] = NoCacheEntry, !.misses = @ + 1,
                                      !.get[g].pc = "done"]
          ELSE cache' = [cache EXCEPT !.entries[k].accessedAt =
                                          IF cache.entries[k].oid = e.oid THEN now ELSE @,
                                      !.hits = @ + 1,
                                      !.get[g].pc = "done", !.get[g].found = TRUE,
                                      !.get[g].response = e.response]
    /\ UNCHANGED <<now, retrier, pipelineVars, unitVars>>

\* The caller of Get takes the result.
C_GetReturn(g) ==
    /\ cache.get[g].pc = "done"
    /\ cache' = [cache EXCEPT !.get[g] = NoGet]
    /\ UNCHANGED <<now, retrier, pipelineVars, unitVars>>

\* PromptCache.cleanup, run by cleanupLoop.
C_Cleanup ==
    /\ \E k \in CacheKeys(cache.entries) : IsExpired(cache.entries[k].createdAt, now)
    /\ cache' = [cache EXCEPT !.entries =
                    [k \in Prompts |-> IF cache.entries[k].oid # 0
                                          /\ IsExpired(cache.entries[k].createdAt, now)
                                       THEN NoCacheEntry ELSE cache.entries[k]]]
    /\ UNCHANGED <<now, retrier, pipelineVars, unitVars>>

CacheNext ==
    \/ Tick
    \/ \E k \in Prompts, response \in {"r1", "r2"} : C_Set(k, response)
    \/ \E g \in 1..Getters, k \in Prompts : C_GetLookup(g, k)
    \/ \E g \in 1..Getters : C_GetFinish(g)
    \/ \E g \in 1..Getters : C_GetReturn(g)
    \/ C_Cleanup

SpecCache == Init /\ [][CacheNext]_vars

\* ------------------------------------------------------------------ Next
Next ==
    \/ HeadAdvance
    \/ \E d \in Deliveries, in \in Inputs : HandleWebhook(d, in)
    \/ \E d \in Deliveries : WriteAccepted(d)
    \/ \E d \in Deliveries : HC_React(d)
    \/ \E d \in Deliveries : HC_Dedup(d)
    \/ \E d \in Deliveries : HC_Persist(d)
    \/ \E d \in Deliveries : HC_Enqueue(d)
    \/ \E t \in Deliveries : W_Start(t)
    \/ \E t \in Deliveries : W_FetchPR(t)
    \/ \E t \in Deliveries : W_FetchDiff(t)
    \/ \E t \in Deliveries : W_Wait(t)
    \/ \E t \in Deliveries : W_LLM(t)
    \/ \E t \in Deliveries : W_Post(t)
    \/ \E t \in Deliveries : B_Settle(t)

Spec == Init /\ [][Next]_vars

\* The store refused the write this step issued: the update after a failed
\* Enqueue left the queued row as it was, or ProcessReview's update of the
\* row at its start or at its return was not written.
StoreRefused ==
    \/ \E d \in Deliveries :
          /\ req[d].pc = "enqueue" /\ req'[d].pc = "done"
          /\ req'[d].enq # "ok" /\ req[d].rid # 0
          /\ reviews' = reviews
    \/ \E t \in Deliveries :
          /\ broker'[t].state # broker[t].state
          /\ broker'[t].state \in {"active", "returned"}
          /\ broker'[t].rid > 0
          /\ ~broker'[t].wrote

\* The deliveries that carry a command: a signed '@bot review' or '@bot hunt'
\* comment on a pull request.
CommandInputs ==
    {BaseRequest(e, w) : e \in {"issue_comment", "pull_request_review_comment"}, w \in Modes}

\* The pipeline with a store that accepts every write of a Review update.
\* The writing of the HTTP response is left out: it runs beside the command
\* handler and touches nothing the handler or the worker reads.
LiveNext ==
    \/ HeadAdvance
    \/ \E d \in Deliveries, in \in CommandInputs : HandleWebhook(d, in)
    \/ \E d \in Deliveries : HC_React(d)
    \/ \E d \in Deliveries : HC_Dedup(d)
    \/ \E d \in Deliveries : HC_Persist(d)
    \/ \E d \in Deliveries : HC_Enqueue(d) /\ ~StoreRefused
    \/ \E t \in Deliveries : W_Start(t) /\ ~StoreRefused
    \/ \E t \in Deliveries : W_FetchPR(t) /\ ~StoreRefused
    \/ \E t \in Deliveries : W_FetchDiff(t) /\ ~StoreRefused
    \/ \E t \in Deliveries : W_Wait(t) /\ ~StoreRefused
    \/ \E t \in Deliveries : W_LLM(t) /\ ~StoreRefused
    \/ \E t \in Deliveries : W_Post(t) /\ ~StoreRefused
    \/ \E t \in Deliveries : B_Settle(t)

\* Fair scheduling: the goroutine of handleCommand runs on, the asynq server
\* dispatches every pending or retried task, the calls ProcessReview makes
\* return, and asynq settles the task when the handler has returned.
SpecLive ==
    /\ Init
    /\ [][LiveNext]_vars
    /\ \A d \in Deliveries :
         /\ WF_vars(HC_React(d))
         /\ WF_vars(HC_Dedup(d))
         /\ WF_vars(HC_Persist(d))
         /\ WF_vars(HC_Enqueue(d) /\ ~StoreRefused)
         /\ WF_vars(W_Start(d) /\ ~StoreRefused)
         /\ WF_vars(W_FetchPR(d) /\ ~StoreRefused)
         /\ WF_vars(W_FetchDiff(d) /\ ~StoreRefused)
         /\ WF_vars(W_Wait(d) /\ ~StoreRefused)
         /\ WF_vars(W_LLM(d) /\ ~StoreRefused)
         /\ WF_vars(W_Post(d) /\ ~StoreRefused)
         /\ WF_vars(B_Settle(d))

\* The ingress alone, with the clock running and the deduplicator's cleanup
\* loop: no worker takes the tasks.
IngressNext ==
    \/ Tick
    \/ DedupCleanup
    \/ \E d \in Deliveries, in \in Inputs : HandleWebhook(d, in)
    \/ \E d \in Deliveries : WriteAccepted(d)
    \/ \E d \in Deliveries : HC_React(d)
    \/ \E d \in Deliveries : HC_Dedup(d)
    \/ \E d \in Deliveries : HC_Persist(d)
    \/ \E d \in Deliveries : HC_Enqueue(d)

SpecIngress == Init /\ [][IngressNext]_vars

LimiterNext ==
    \/ Tick
    \/ \E c \in 1..MaxCallers : L_Wait(c)
    \/ \E c \in 1..MaxCallers : L_Poll(c)
    \/ \E c \in 1..MaxCallers : L_Release(c)

SpecLimiter == Init /\ [][LimiterNext]_vars

\* ----------------------------------------- ProcessReview, start to return
\* What the collaborators answer during one execution: the forge (pull
\* request, diff, files, review submission, regular comment), the limiter,
\* the response cache, and the tool, which returns n parsed inline comments.
Environments ==
    [pr : {"ok", "stale", "err"}, diff : {"ok", "err"}, files : {"ok", "err"},
     wait : {"ok", "cancel"}, cached : BOOLEAN, llm : {"ok", "err", "cancel"},
     n : 0..MaxInline, review : BOOLEAN, comment : {"ok", "err", "cancel"}]

\* Which store writes succeed: the processing update, the terminal update,
\* the ReviewComment inserts.
StoreOutcomes == [proc : BOOLEAN, fin : BOOLEAN, rows : BOOLEAN]
StoreAllOK == [proc |-> TRUE, fin |-> TRUE, rows |-> TRUE]

\* ProcessReview returning when a store write fails.
AfterStoreError_Return(ok) == IF ok THEN "continue" ELSE "return"

\* ProcessReview after a store write: the error is logged or discarded.
AfterStoreError(ok) == "continue"

\* ProcessReview releasing the token whether or not Wait granted one.
Deferred_Always(held) == <<"release">>

\* ProcessReview: the deferred calls run at return; Release is deferred only
\* after Wait succeeded.
Deferred(held) == IF held THEN <<"release">> ELSE <<>>

\* A store write ProcessReview issues (rid > 0) and whether the store took it.
Write(rid, status, bugs, posted, ok) ==
    IF rid > 0 THEN <<[status |-> status, bugs |-> bugs, posted |-> posted, ok |-> ok]>> ELSE <<>>

\* The result of an execution: the forge, limiter, cache and tool calls in
\* order, the inline comments the review submission carried, the store
\* writes in order, the ReviewComment rows issued, and the returned value.
Outcome(calls, drafts, writes, rows, ret, held) ==
    [calls |-> calls \o Deferred(held), drafts |-> drafts, writes |-> writes, rows |-> rows,
     ret |-> ret]

\* The fail closure followed by postError.
FailWith(calls, writes, rid, kind, st, held) ==
    Outcome(calls \o <<"confused", "errcomment">>, 0,
            writes \o Write(rid, IF kind = "cancel" THEN "cancelled" ELSE "failed", 0, 0, st.fin),
            0, "err", held)

\* Client.ReviewCode: <<calls, result>>; the cache is consulted first, the
\* tool runs on a miss, and a successful response is stored.
ReviewCode(e) ==
    IF e.cached THEN <<(<<"cache_get">>), "ok">>
    ELSE IF e.llm = "ok" THEN <<(<<"cache_get", "llm", "cache_set">>), "ok">>
    ELSE <<(<<"cache_get", "llm">>), e.llm>>

\* Posting without the fallback to a regular comment.
Posting_NoFallback(n, reviewOk, comment) ==
    IF n > 0
    THEN [calls |-> <<"review">>, drafts |-> n, res |-> IF reviewOk THEN "ok" ELSE "err",
          posted |-> IF reviewOk THEN n ELSE 0]
    ELSE [calls |-> <<"comment">>, drafts |-> 0, res |-> comment,
          posted |-> IF comment = "ok" THEN 1 ELSE 0]

\* ProcessReview posting the result: a review with the inline comments, a
\* regular comment when the submission fails or when there are none.
Posting(n, reviewOk, comment) ==
    IF n > 0
    THEN IF reviewOk
         THEN [calls |-> <<"review">>, drafts |-> n, res |-> "ok", posted |-> n]
         ELSE [calls |-> <<"review", "comment">>, drafts |-> n, res |-> comment,
               posted |-> IF comment = "ok" THEN 1 ELSE 0]
    ELSE [calls |-> <<"comment">>, drafts |-> 0, res |-> comment,
          posted |-> IF comment = "ok" THEN 1 ELSE 0]

\* Reviewer.ProcessReview for the review row rid (0: none), from its first
\* statement to its return.
ProcessReview(rid, e, st) ==
    LET w0 == Write(rid, "processing", 0, 0, st.proc)
        c1 == <<"eyes", "getpr">>
        c2 == c1 \o <<"diff">>
        c3 == c2 \o <<"files">>
        c4 == c3 \o <<"context", "wait">>
        rc == ReviewCode(e)
        c5 == c4 \o rc[1]
        po == Posting(e.n, e.review, e.comment)
        c6 == c5 \o po.calls
        rows == IF rid > 0 /\ po.posted = e.n /\ e.n > 0 THEN e.n ELSE 0
    IN IF rid > 0 /\ AfterStoreError(st.proc) = "return" THEN Outcome(<<>>, 0, w0, 0, "err", FALSE)
       ELSE IF e.pr = "err" THEN FailWith(c1, w0, rid, "err", st, FALSE)
       ELSE IF e.pr = "stale"
            THEN Outcome(c1, 0, w0 \o Write(rid, "cancelled", 0, 0, st.fin), 0, "nil", FALSE)
       ELSE IF e.diff = "err" THEN FailWith(c2, w0, rid, "err", st, FALSE)
       ELSE IF e.files = "err" THEN FailWith(c3, w0, rid, "err", st, FALSE)
       ELSE IF e.wait = "cancel" THEN FailWith(c4, w0, rid, "cancel", st, FALSE)
       ELSE IF rc[2] # "ok" THEN FailWith(c5, w0, rid, rc[2], st, TRUE)
       ELSE IF po.res # "ok" THEN
            [FailWith(c6, w0, rid, po.res, st, TRUE) EXCEPT !.drafts = po.drafts]
       ELSE Outcome(c6 \o <<"rocket">>, po.drafts,
                    w0 \o Write(rid, "completed", e.n, po.posted, st.fin), rows, "nil", TRUE)

\* The status the Review row rid reads after the writes, from queued.
RECURSIVE RowAfter(_, _)
RowAfter(writes, k) ==
    IF k = 0 THEN "queued"
    ELSE IF writes[k].ok THEN writes[k].status ELSE RowAfter(writes, k - 1)

\* A worker runs ProcessReview once, against one answer of every collaborator.
PR_Run(rid, e, st) ==
    /\ run.pc = "idle"
    /\ run' = [pc |-> "done", rid |-> rid, env |-> e, store |-> st, out |-> ProcessReview(rid, e, st)]
    /\ UNCHANGED <<now, retrier, cache, pipelineVars, parsed, trunc, zl, queue, dedup, cb>>

RunNext ==
    /\ run.pc = "idle"
    /\ \E rid \in 0..1, e \in Environments, st \in StoreOutcomes : PR_Run(rid, e, st)

SpecRun == Init /\ [][RunNext]_vars

\* --------------------------------------------------- structured output
\* A text is a sequence of symbols: the two markers, the line break, the
\* blank, the colon, the minus sign, digits, and letters.
Digits == <<"0", "1", "2", "3", "4", "5", "6", "7", "8", "9">>
IsDigit(c) == \E i \in 1..10 : Digits[i] = c
DigitVal(c) == (CHOOSE i \in 1..10 : Digits[i] = c) - 1

\* unicode.IsSpace on the symbols of a text
IsSpace(c) == c \in {" ", "\n"}

RECURSIVE TrimLeft(_)
TrimLeft(t) == IF t # <<>> /\ IsSpace(Head(t)) THEN TrimLeft(Tail(t)) ELSE t

RECURSIVE TrimRight(_)
TrimRight(t) ==
    IF t # <<>> /\ IsSpace(t[Len(t)]) THEN TrimRight(SubSeq(t, 1, Len(t) - 1)) ELSE t

\* strings.TrimSpace
TrimSpace(t) == TrimRight(TrimLeft(t))

\* strings.Split(t, "\n")
RECURSIVE Split(_)
Split(t) ==
    IF \A i \in 1..Len(t) : t[i] # "\n" THEN <<t>>
    ELSE LET i == CHOOSE k \in 1..Len(t) : t[k] = "\n" /\ \A m \in 1..(k - 1) : t[m] # "\n"
         IN <<SubSeq(t, 1, i - 1)>> \o Split(SubSeq(t, i + 1, Len(t)))

\* strings.HasPrefix(t, marker), the marker being one symbol
HasPrefix(t, marker) == t # <<>> /\ Head(t) = marker

\* parseFileReference cutting at the first colon.
LastIndex_First(t, c) ==
    IF \A i \in 1..Len(t) : t[i] # c THEN 0
    ELSE CHOOSE k \in 1..Len(t) : t[k] = c /\ \A m \in 1..(k - 1) : t[m] # c

\* strings.LastIndex(t, ":"), 1-based, 0 when there is none
LastIndex(t, c) ==
    IF \A i \in 1..Len(t) : t[i] # c THEN 0
    ELSE CHOOSE k \in 1..Len(t) : t[k] = c /\ \A m \in (k + 1)..Len(t) : t[m] # c

\* The value of the longest run of digits t starts with, after acc.
RECURSIVE ScanDigits(_, _)
ScanDigits(t, acc) ==
    IF t # <<>> /\ IsDigit(Head(t)) THEN ScanDigits(Tail(t), 10 * acc + DigitVal(Head(t))) ELSE acc

\* fmt.Sscanf(t, "%d", &n): <<ok, n>>; blanks are skipped, a sign is
\* accepted, and the scan stops behind the last digit.
Sscanf(t) ==
    LET u == TrimLeft(t)
        neg == u # <<>> /\ Head(u) = "-"
        d == IF neg THEN Tail(u) ELSE u
    IN IF d # <<>> /\ IsDigit(Head(d))
       THEN <<TRUE, IF neg THEN 0 - ScanDigits(d, 0) ELSE ScanDigits(d, 0)>>
       ELSE <<FALSE, 0>>

\* strconv formatting of an integer, as %d prints it.
RECURSIVE FormatNat(_)
FormatNat(n) == IF n < 10 THEN <<Digits[n + 1]>> ELSE FormatNat(n \div 10) \o <<Digits[(n % 10) + 1]>>
FormatInt(n) == IF n < 0 THEN <<"-">> \o FormatNat(0 - n) ELSE FormatNat(n)

\* parseFileReference on a line that starts with FILE: (the texts have no
\* backticks, so the second pattern never matches).
parseFileReference(text) ==
    LET t == TrimSpace(text)
        ref == TrimSpace(Tail(t))
        colonIdx == LastIndex(ref, ":")
        scan == Sscanf(SubSeq(ref, colonIdx + 1, Len(ref)))
    IN IF HasPrefix(t, "FILE:") /\ colonIdx # 0 /\ scan[1]
       THEN [found |-> TRUE, file |-> SubSeq(ref, 1, colonIdx - 1), line |-> scan[2]]
       ELSE [found |-> FALSE, file |-> <<>>, line |-> 0]

\* ParseStructuredReview appending the open comment, when there is one.
Flush(st) ==
    IF st.file # <<>> /\ st.cur # <<>>
    THEN Append(st.comments, [path |-> st.file, line |-> st.line, body |-> TrimSpace(st.cur)])
    ELSE st.comments

\* ParseStructuredReview: a line that is no marker goes to the open comment
\* or to the summary.
Accumulate(st, line) ==
    IF st.inComment /\ st.file # <<>> THEN [st EXCEPT !.cur = @ \o line \o <<"\n">>]
    ELSE IF ~st.inComment THEN [st EXCEPT !.summary = @ \o line \o <<"\n">>]
    ELSE st

\* ParseStructuredReview: the form of a line that is tested for the markers.
MarkerLine(line) == TrimSpace(line)

\* One round of the loop of ParseStructuredReview.
ParseLine(st, line) ==
    LET trimmed == MarkerLine(line)
    IN IF HasPrefix(trimmed, "FILE:")
       THEN LET ref == parseFileReference(trimmed)
                st1 == [st EXCEPT !.comments = Flush(st),
                                  !.cur = IF st.file # <<>> /\ st.cur # <<>> THEN <<>> ELSE @]
            IN IF ref.found
               THEN [st1 EXCEPT !.file = ref.file, !.line = ref.line, !.inComment = FALSE]
               ELSE st1
       ELSE IF HasPrefix(trimmed, "COMMENT:")
       THEN LET commentText == TrimSpace(Tail(trimmed))
            IN [st EXCEPT !.inComment = TRUE,
                          !.cur = IF commentText # <<>> THEN @ \o commentText \o <<"\n">> ELSE @]
       ELSE Accumulate(st, line)

RECURSIVE ParseLines(_, _, _)
ParseLines(st, lines, i) ==
    IF i > Len(lines) THEN st ELSE ParseLines(ParseLine(st, lines[i]), lines, i + 1)

\* ParseStructuredReview
ParseStructuredReview(review) ==
    LET st == ParseLines([summary |-> <<>>, comments |-> <<>>, file |-> <<>>, line |-> 0,
                          cur |-> <<>>, inComment |-> FALSE], Split(review), 1)
    IN [summary |-> TrimSpace(st.summary), comments |-> Flush(st)]

\* Texts of up to MaxText symbols.
TextSymbols == {"x", " ", "\n", "COMMENT:", "FILE:"}
RawTexts == UNION {[1..n -> TextSymbols] : n \in 0..MaxText}

\* (path, line, body) triples and the lists of up to MaxTriples of them.
Paths == {<<"p">>, <<"p", ":", "q">>, <<" ", "p">>, <<"p", "\n", "q">>}
LineNumbers == {0, 7, 12, 0 - 3}
Bodies == {<<"b">>, <<"b", "\n", "\n", " ", "c">>, <<"b", " ", "\n", "c">>, <<" ">>,
           <<"b", "\n", " ", "FILE:", " ", "q", ":", "1">>}
Triples == [path : Paths, line : LineNumbers, body : Bodies]
TripleLists == UNION {[1..n -> Triples] : n \in 0..MaxTriples}

\* The block 'FILE: path:line / COMMENT: body / blank line' of each triple.
RECURSIVE Render(_)
Render(list) ==
    IF list = <<>> THEN <<>>
    ELSE <<"FILE:", " ">> \o Head(list).path \o <<":">> \o FormatInt(Head(list).line)
         \o <<"\n", "COMMENT:", " ">> \o Head(list).body \o <<"\n", "\n">> \o Render(Tail(list))

\* The block of a triple whose FILE: line has a letter where the line
\* number belongs: 'FILE: path:x / COMMENT: body / blank line'.
RenderBad(t) ==
    <<"FILE:", " ">> \o t.path \o <<":", "x">>
    \o <<"\n", "COMMENT:", " ">> \o t.body \o <<"\n", "\n">>

\* The texts given to ParseStructuredReview: any short text, the rendering of
\* a list of triples, and the rendering of at most one triple followed by a
\* block whose FILE: line does not parse.
InitParse ==
    /\ InitSystem
    /\ trunc = NoTruncate
    /\ \/ \E t \in RawTexts : parsed = [NoParse EXCEPT !.pc = "raw", !.text = t]
       \/ \E l \in TripleLists :
            parsed = [NoParse EXCEPT !.pc = "rendered", !.triples = l, !.text = Render(l)]
       \/ \E l \in {x \in TripleLists : Len(x) <= 1}, t \in Triples :
            parsed = [NoParse EXCEPT !.pc = "damaged", !.triples = l, !.bad = <<t>>,
                                     !.text = Render(l) \o RenderBad(t)]

\* The text is parsed.
P_Parse ==
    /\ parsed.pc \in {"raw", "rendered", "damaged"}
    /\ LET r == ParseStructuredReview(parsed.text)
       IN parsed' = [parsed EXCEPT !.pc = "done", !.summary = r.summary, !.comments = r.comments]
    /\ UNCHANGED <<now, retrier, cache, pipelineVars, run, trunc, zl, queue, dedup, cb>>

ParseNext == P_Parse

SpecParse == InitParse /\ [][ParseNext]_vars

\* ------------------------------------------------------- diff truncation
\* A diff is a sequence of symbols: "diff --git", the line break, and any
\* other byte; offsets count symbols from 0.
DiffSymbols == {"diff --git", "\n", "x"}
Diffs == UNION {[1..n -> DiffSymbols] : n \in 0..MaxDiffLen}
Notice == <<"\n", "\n", "[Diff truncated due to size limits]">>

\* TruncateDiff accepting only a boundary strictly below the limit.
WithinLimit_Strict(offset, maxSize) == offset < maxSize

\* TruncateDiff: match[0] <= maxSize
WithinLimit(offset, maxSize) == offset <= maxSize

\* The regular expression (?m)^diff --git matches at offset i.
MatchesAt(diff, i) == diff[i + 1] = "diff --git" /\ (i = 0 \/ diff[i] = "\n")

\* TruncateDiff: the loop over the matches in ascending order, from offset i
\* on, with the last valid offset found so far.
RECURSIVE LastValidEnd(_, _, _, _)
LastValidEnd(diff, maxSize, i, last) ==
    IF i >= Len(diff) THEN last
    ELSE IF ~MatchesAt(diff, i) THEN LastValidEnd(diff, maxSize, i + 1, last)
    ELSE IF WithinLimit(i, maxSize) THEN LastValidEnd(diff, maxSize, i + 1, i)
    ELSE last

\* TruncateDiff
TruncateDiff(diff, maxSize) ==
    IF Len(diff) <= maxSize THEN diff
    ELSE LET lastValidEnd == LastValidEnd(diff, maxSize, 0, 0)
         IN IF lastValidEnd > 0 THEN SubSeq(diff, 1, lastValidEnd) \o Notice
            ELSE SubSeq(diff, 1, maxSize) \o Notice

\* The diffs and limits given to TruncateDiff.
InitTruncate ==
    /\ InitSystem
    /\ parsed = NoParse
    /\ \E d \in Diffs, m \in 0..MaxDiffSize :
         trunc = [NoTruncate EXCEPT !.pc = "in", !.diff = d, !.maxSize = m]

\* The diff is truncated.
T_Truncate ==
    /\ trunc.pc = "in"
    /\ trunc' = [trunc EXCEPT !.pc = "done", !.out = TruncateDiff(trunc.diff, trunc.maxSize)]
    /\ UNCHANGED <<now, retrier, cache, pipelineVars, run, parsed, zl, queue, dedup, cb>>

TruncateNext == T_Truncate

SpecTruncate == InitTruncate /\ [][TruncateNext]_vars

\* ------------------------------------------------- configured limiter
\* A Limiter is built with a configured max_tokens.
Z_New(m) ==
    /\ zl.pc = "none"
    /\ LET l == NewLimiter(m, now)
       IN zl' = [zl EXCEPT !.pc = "ready", !.cfg = m, !.maxTokens = l.maxTokens,
                           !.tokens = l.tokens, !.lastRefill = l.lastRefill]
    /\ UNCHANGED <<now, retrier, cache, pipelineVars, run, parsed, trunc, queue, dedup, cb>>

\* A goroutine calls Wait.
Z_Wait(c) ==
    /\ zl.pc = "ready" /\ zl.w[c] = "idle"
    /\ zl' = [zl EXCEPT !.w[c] = "trying"]
    /\ UNCHANGED <<now, retrier, cache, pipelineVars, run, parsed, trunc, queue, dedup, cb>>

\* Wait: one tryAcquire; on success Wait returns nil, else it sleeps.
Z_Try(c) ==
    /\ zl.pc = "ready" /\ zl.w[c] = "trying"
    /\ LET res == tryAcquireMax(zl.tokens, zl.lastRefill, now, zl.maxTokens)
       IN zl' = [zl EXCEPT !.tokens = res[2], !.lastRefill = res[3],
                           !.w[c] = IF res[1] THEN "holding" ELSE "sleeping"]
    /\ UNCHANGED <<now, retrier, cache, pipelineVars, run, parsed, trunc, queue, dedup, cb>>

\* Wait: the 100 ms timer fires and the loop tries again.
Z_Wake(c) ==
    /\ zl.pc = "ready" /\ zl.w[c] = "sleeping"
    /\ zl' = [zl EXCEPT !.w[c] = "trying"]
    /\ UNCHANGED <<now, retrier, cache, pipelineVars, run, parsed, trunc, queue, dedup, cb>>

\* The context given to Wait is cancelled while the call is in progress.
Z_Done(c) ==
    /\ zl.pc = "ready" /\ zl.w[c] \in {"trying", "sleeping"} /\ ~zl.ctx[c]
    /\ zl' = [zl EXCEPT !.ctx[c] = TRUE]
    /\ UNCHANGED <<now, retrier, cache, pipelineVars, run, parsed, trunc, queue, dedup, cb>>

\* Wait: the select takes <-ctx.Done(); Wait returns ctx.Err().
Z_Cancel(c) ==
    /\ zl.pc = "ready" /\ zl.w[c] = "sleeping" /\ zl.ctx[c]
    /\ zl' = [zl EXCEPT !.w[c] = "cancelled"]
    /\ UNCHANGED <<now, retrier, cache, pipelineVars, run, parsed, trunc, queue, dedup, cb>>

\* The holder of a token calls Release.
Z_Release(c) ==
    /\ zl.pc = "ready" /\ zl.w[c] = "holding"
    /\ zl' = [zl EXCEPT !.tokens = ReleaseMax(zl.tokens, zl.maxTokens), !.w[c] = "idle"]
    /\ UNCHANGED <<now, retrier, cache, pipelineVars, run, parsed, trunc, queue, dedup, cb>>

ConfiguredNext ==
    \/ Tick
    \/ \E m \in 0..MaxTokens : Z_New(m)
    \/ \E c \in 1..Waiters : Z_Wait(c)
    \/ \E c \in 1..Waiters : Z_Try(c)
    \/ \E c \in 1..Waiters : Z_Wake(c)
    \/ \E c \in 1..Waiters : Z_Done(c)
    \/ \E c \in 1..Waiters : Z_Cancel(c)
    \/ \E c \in 1..Waiters : Z_Release(c)

SpecConfigured == Init /\ [][ConfiguredNext]_vars

\* The limiter under fair scheduling: a goroutine inside Wait runs its next
\* tryAcquire and its timer fires (weak fairness); a select entered with the
\* context done takes <-ctx.Done(), since the timer made by time.After is
\* not ready then (strong fairness of the cancelled return); the holder of a
\* token returns it, because ProcessReview defers Release.
SpecWait ==
    /\ Init
    /\ [][ConfiguredNext]_vars
    /\ \A c \in 1..Waiters :
         /\ WF_vars(Z_Try(c))
         /\ WF_vars(Z_Wake(c) \/ Z_Cancel(c))
         /\ SF_vars(Z_Cancel(c))
         /\ WF_vars(Z_Release(c))

\* ------------------------------------------------- in-process ReviewQueue
\* ReviewQueue.CancelStaleReview: the job registered under the ID is cancelled.
CancelStaleReview(q, pr) ==
    IF q.activeJobs[pr] # 0 THEN [q EXCEPT !.job[q.activeJobs[pr]].cancelled = TRUE] ELSE q

\* ReviewQueue.Enqueue for a pull request: cancel the stale review, make the
\* job, send it on the channel unless the channel is full.
Q_Enqueue(pr) ==
    /\ queue.made < MaxJobs
    /\ LET j == queue.made + 1
           q1 == CancelStaleReview(queue, pr)
       IN queue' = IF Len(q1.jobs) < MaxQueueLen
                   THEN [q1 EXCEPT !.made = j, !.jobs = Append(@, j),
                                   !.job[j] = [state |-> "queued", pr |-> pr, cancelled |-> FALSE]]
                   ELSE [q1 EXCEPT !.made = j,
                                   !.job[j] = [state |-> "rejected", pr |-> pr, cancelled |-> TRUE]]
    /\ UNCHANGED <<now, retrier, cache, pipelineVars, run, parsed, trunc, zl, dedup, cb>>

\* ReviewQueue.worker: an idle worker receives the next job from the channel.
Q_Receive(w) ==
    /\ queue.worker[w] = 0
    /\ queue.jobs # <<>>
    /\ queue' = [queue EXCEPT !.worker[w] = Head(queue.jobs), !.jobs = Tail(@),
                              !.job[Head(queue.jobs)].state = "received"]
    /\ UNCHANGED <<now, retrier, cache, pipelineVars, run, parsed, trunc, zl, dedup, cb>>

\* ReviewQueue.processJob: the job is entered in activeJobs and ProcessReview starts.
Q_Track(w) ==
    /\ queue.worker[w] # 0
    /\ queue.job[queue.worker[w]].state = "received"
    /\ LET j == queue.worker[w]
       IN queue' = [queue EXCEPT !.activeJobs[queue.job[j].pr] = j, !.job[j].state = "running"]
    /\ UNCHANGED <<now, retrier, cache, pipelineVars, run, parsed, trunc, zl, dedup, cb>>

\* ReviewQueue.processJob: ProcessReview returns and the deferred function
\* deletes the job ID from activeJobs.
Q_Finish(w) ==
    /\ queue.worker[w] # 0
    /\ queue.job[queue.worker[w]].state = "running"
    /\ LET j == queue.worker[w]
       IN queue' = [queue EXCEPT !.activeJobs[queue.job[j].pr] = 0, !.job[j].state = "finished",
                                 !.worker[w] = 0]
    /\ UNCHANGED <<now, retrier, cache, pipelineVars, run, parsed, trunc, zl, dedup, cb>>

QueueNext ==
    \/ \E pr \in 1..QueuePRs : Q_Enqueue(pr)
    \/ \E w \in 1..QueueWorkers : Q_Receive(w)
    \/ \E w \in 1..QueueWorkers : Q_Track(w)
    \/ \E w \in 1..QueueWorkers : Q_Finish(w)

SpecQueue == Init /\ [][QueueNext]_vars

\* ------------------------------------------- Deduplicator on its own
\* An entry that is never taken to be expired.
EntryExpired_Never(e, t) == FALSE

\* time.Since(entry.createdAt) > d.ttl, and now.Sub(entry.createdAt) > d.ttl in cleanup.
EntryExpired(e, t) == t - e.createdAt > DedupTTL

\* Deduplicator.CheckAndMark(key), the whole body under d.mu: an entry that
\* has not expired makes the call a duplicate that gets the entry's channel;
\* otherwise the entry is deleted and a new pending one with a new channel is
\* stored, and the call gets (false, nil).
D_CheckAndMark(k) ==
    /\ ~dedup.panicked
    /\ Len(dedup.marks) < MaxMarks
    /\ LET e == dedup.requests[k]
           h == dedup.made + 1
       IN dedup' =
            IF e.status # "absent" /\ ~EntryExpired(e, now)
            THEN [dedup EXCEPT !.marks = Append(@, [key |-> k, at |-> now, duplicate |-> TRUE,
                                                     wait |-> e.done, done |-> e.done])]
            ELSE [dedup EXCEPT !.requests[k] = [status |-> "pending", createdAt |-> now, done |-> h],
                               !.made = h,
                               !.marks = Append(@, [key |-> k, at |-> now, duplicate |-> FALSE,
                                                     wait |-> 0, done |-> h])]
    /\ UNCHANGED <<now, retrier, cache, pipelineVars, run, parsed, trunc, zl, queue, cb>>

\* The status is stored and the entry's channel is closed; closing a channel
\* that is closed already panics.
Settle(d, k, status) ==
    IF d.requests[k].status = "absent" THEN [d EXCEPT !.settles = @ + 1]
    ELSE [d EXCEPT !.settles = @ + 1,
                   !.requests[k].status = status,
                   !.closed = @ \cup {d.requests[k].done},
                   !.panicked = d.requests[k].done \in d.closed]

\* Deduplicator.Complete(key, result)
D_Complete(k) ==
    /\ ~dedup.panicked
    /\ dedup.settles < MaxSettles
    /\ dedup' = Settle(dedup, k, "completed")
    /\ UNCHANGED <<now, retrier, cache, pipelineVars, run, parsed, trunc, zl, queue, cb>>

\* Deduplicator.Fail(key, err)
D_Fail(k) ==
    /\ ~dedup.panicked
    /\ dedup.settles < MaxSettles
    /\ dedup' = Settle(dedup, k, "failed")
    /\ UNCHANGED <<now, retrier, cache, pipelineVars, run, parsed, trunc, zl, queue, cb>>

\* Deduplicator.cleanup, run by cleanupLoop: expired entries are deleted.
D_Cleanup ==
    /\ ~dedup.panicked
    /\ \E k \in 1..UnitKeys :
         dedup.requests[k].status # "absent" /\ EntryExpired(dedup.requests[k], now)
    /\ dedup' = [dedup EXCEPT !.requests =
                   [k \in 1..UnitKeys |->
                      IF dedup.requests[k].status # "absent" /\ EntryExpired(dedup.requests[k], now)
                      THEN NoRequestEntry ELSE dedup.requests[k]]]
    /\ UNCHANGED <<now, retrier, cache, pipelineVars, run, parsed, trunc, zl, queue, cb>>

DedupNext ==
    \/ Tick
    \/ \E k \in 1..UnitKeys : D_CheckAndMark(k)
    \/ \E k \in 1..UnitKeys : D_Complete(k)
    \/ \E k \in 1..UnitKeys : D_Fail(k)
    \/ D_Cleanup

SpecDedup == Init /\ [][DedupNext]_vars

\* --------------------------------------------------------- CircuitBreaker
toOpen(b) == [b EXCEPT !.state = "open", !.halfOpenCount = 0]

toHalfOpen(b) ==
    [b EXCEPT !.state = "half-open", !.halfOpenCount = 0, !.successCount = 0, !.period = @ + 1]

toClosed(b) == [b EXCEPT !.state = "closed", !.failureCount = 0, !.successCount = 0]

\* CircuitBreaker.allowRequest at time t: <<allowed, breaker'>>
allowRequest(b, t) ==
    CASE b.state = "closed" -> <<TRUE, b>>
      [] b.state = "open" ->
           IF t - b.lastFailure > BreakerTimeout
           THEN <<toHalfOpen(b).halfOpenCount < MaxHalfOpen, toHalfOpen(b)>>
           ELSE <<FALSE, b>>
      [] OTHER ->
           IF b.halfOpenCount < MaxHalfOpen
           THEN <<TRUE, [b EXCEPT !.halfOpenCount = @ + 1]>>
           ELSE <<FALSE, b>>

\* CircuitBreaker.onFailure at time t
onFailure(b, t) ==
    LET b1 == [b EXCEPT !.failureCount = @ + 1, !.successCount = 0, !.lastFailure = t]
    IN CASE b1.state = "closed" ->
              IF b1.failureCount >= FailureThreshold THEN toOpen(b1) ELSE b1
         [] b1.state = "half-open" -> toOpen([b1 EXCEPT !.halfOpenCount = @ - 1])
         [] OTHER -> b1

\* CircuitBreaker.onSuccess
onSuccess(b) ==
    CASE b.state = "closed" -> [b EXCEPT !.failureCount = 0]
      [] b.state = "half-open" ->
           LET b1 == [b EXCEPT !.halfOpenCount = @ - 1, !.successCount = @ + 1]
           IN IF b1.successCount >= SuccessThreshold THEN toClosed(b1) ELSE b1
      [] OTHER -> b

\* CircuitBreaker.Execute, first half: allowRequest; a rejected call returns
\* ErrCircuitOpen, an admitted one goes on to run fn.
CB_Allow(c) ==
    /\ cb.call[c].pc = "idle"
    /\ cb.executes < MaxExecutes
    /\ LET r == allowRequest(cb, now)
       IN cb' = [r[2] EXCEPT !.executes = @ + 1,
                             !.call[c] = IF r[1] THEN [pc |-> "running", period |->
                                                        IF r[2].state = "half-open" THEN r[2].period ELSE 0]
                                         ELSE [pc |-> "idle", period |-> 0]]
    /\ UNCHANGED <<now, retrier, cache, pipelineVars, run, parsed, trunc, zl, queue, dedup>>

\* CircuitBreaker.Execute, second half: fn returned err and recordResult(err) runs.
CB_Record(c, failed) ==
    /\ cb.call[c].pc = "running"
    /\ cb' = [(IF failed THEN onFailure(cb, now) ELSE onSuccess(cb))
                EXCEPT !.call[c] = [pc |-> "idle", period |-> 0]]
    /\ UNCHANGED <<now, retrier, cache, pipelineVars, run, parsed, trunc, zl, queue, dedup>>

BreakerNext ==
    \/ Tick
    \/ \E c \in 1..BreakerCallers : CB_Allow(c)
    \/ \E c \in 1..BreakerCallers, failed \in BOOLEAN : CB_Record(c, failed)

SpecBreaker == Init /\ [][BreakerNext]_vars

\* ---------------------------------------------------------------- claims
\* C1 (as stated): completed, failed and cancelled are absorbing, and the
\* only status changes ever written to a Review are queued->processing,
\* processing->completed|failed|cancelled, queued->failed and queued->cancelled.
C1_Original ==
    [][\A i \in 1..Len(reviews) :
         \/ reviews'[i].status = reviews[i].status
         \/ <<reviews[i].status, reviews'[i].status>> \in
              {<<"queued", "processing">>, <<"processing", "completed">>,
               <<"processing", "failed">>, <<"processing", "cancelled">>,
               <<"queued", "failed">>, <<"queued", "cancelled">>}]_vars

\* C2 (as stated): every delivery that passed the deduper gate has inserted
\* exactly one Review row before it submits its task, the task's review_id
\* refers to that row, and no task is submitted without such a row.
C2_Original ==
    \A d \in Deliveries :
        /\ (req[d].pc \in {"enqueue", "done"} /\ ~req[d].dup) =>
              Cardinality({i \in 1..Len(reviews) : reviews[i].d = d}) = 1
        /\ broker[d].state # "absent" =>
              /\ broker[d].rid \in 1..Len(reviews)
              /\ reviews[broker[d].rid].d = d

\* C2 (amended): a delivery that passed the gate has inserted at most one
\* Review row, and has done so before it submits its task; when the insert
\* succeeded the row is the one event.ReviewID names, it is queued until the
\* task is submitted, and the task carries that id; when the insert failed
\* there is no row and the task is submitted with review_id 0. A delivery
\* stopped at or before the gate has no row and no task.
C2_Amended ==
    \A d \in Deliveries :
        LET rows == {i \in 1..Len(reviews) : reviews[i].d = d}
        IN /\ (req[d].pc \in {"none", "react", "dedup", "persist"} \/ req[d].dup) =>
                 rows = {} /\ broker[d].state = "absent"
           /\ (req[d].pc \in {"enqueue", "done"} /\ ~req[d].dup) =>
                 rows = (IF req[d].rid > 0 THEN {req[d].rid} ELSE {})
           /\ (req[d].pc = "enqueue" /\ req[d].rid > 0) =>
                 reviews[req[d].rid].status = "queued" /\ reviews[req[d].rid].sha = req[d].sha
           /\ broker[d].state # "absent" =>
                 req[d].pc = "done" /\ req[d].enq = "ok" /\ broker[d].rid = req[d].rid

\* A task is in the broker whose review_id names the row its delivery inserted.
C2_Witness ==
    \E d \in Deliveries :
        /\ broker[d].state = "pending"
        /\ broker[d].rid > 0
        /\ reviews[broker[d].rid].d = d

\* C3: a POST whose signature header is missing, lacks the sha256= prefix or
\* does not match the HMAC of the body under the secret is answered 401, its
\* command handler is never started, and it leaves no reaction, no Review
\* row and no task.
C3_Unauthorized ==
    \A d \in Deliveries :
        (req[d].resp # "unsent" /\ req[d].sig # "valid") =>
            /\ req[d].resp = "401"
            /\ req[d].pc = "none"
            /\ ~req[d].eyes
            /\ ~req[d].dup /\ req[d].enq = "no" /\ req[d].rid = 0
            /\ \A i \in 1..Len(reviews) : reviews[i].d # d
            /\ broker[d].state = "absent"

\* A delivery signed over a different body has been answered 401 while
\* another delivery went through to the broker.
C3_Witness ==
    \E d, e \in Deliveries :
        /\ req[d].sig = "wrongbody" /\ req[d].resp = "401"
        /\ req[e].sig = "valid" /\ req[e].enq = "ok"

\* C4 (as stated): the callers that acquired a limiter token and have not
\* released it are never more than max_tokens.
C4_Original == Cardinality({c \in 1..MaxCallers : caller[c] = "holding"}) <= MaxTokens

\* C5 (as stated): of two handled deliveries of the same mode made while the
\* head was the same commit (all within the TTL), exactly one passed the
\* deduper gate; the other returned at the gate with no row and no task.
C5_Original ==
    \A d, e \in Deliveries :
        (d # e /\ req[d].pc = "done" /\ req[e].pc = "done"
              /\ req[d].hsha = req[e].hsha /\ req[d].mode = req[e].mode) =>
            /\ req[d].dup # req[e].dup
            /\ req[e].dup => /\ req[e].enq = "no"
                             /\ \A i \in 1..Len(reviews) : reviews[i].d # e

\* C6 (as stated): a command delivered after the head advanced from A to B is
\* admitted at the gate whatever was delivered, in the same mode, while the
\* head was A, and its TaskID ends in B.
C6_Original ==
    \A d, e \in Deliveries :
        (req[d].hsha = "A" /\ req[e].hsha = "B" /\ req[d].mode = req[e].mode
              /\ req[d].pc \notin {"none", "react", "dedup"}
              /\ req[e].pc \notin {"none", "react", "dedup"}) =>
            /\ ~req[e].dup
            /\ (req[e].pc \in {"enqueue", "done"} /\ req[e].sha # NoSHA) =>
                  TaskIDOption(e) = <<"review", Owner, Repo, PRNumber, "B">>

\* C7: when ProcessReview has fetched the pull request and the task's
\* commit_sha is non-empty and differs from the head, it returns nil there:
\* the Review is updated to cancelled (the row shows it whenever the store
\* took the write), and no diff or file fetch, limiter token, tool call,
\* comment, review or confused reaction was made. The only other way out of
\* that step is a failed GetPullRequest.
C7_Stale ==
    [][\A t \in Deliveries :
         (/\ broker[t].state = "active" /\ broker[t].pc = "fetchpr"
          /\ broker[t].sha # NoSHA /\ head # broker[t].sha
          /\ broker'[t] # broker[t]) =>
            /\ broker'[t].state = "returned"
            /\ broker'[t].exit = "stale" \/ faults' > faults
            /\ broker'[t].exit = "stale" =>
                 /\ broker'[t].ret = "nil"
                 /\ broker'[t].calls = {"eyes", "getpr"}
                 /\ ~broker'[t].holding /\ tokens' = tokens
                 /\ broker[t].rid > 0 =>
                      /\ broker'[t].upd = "cancelled"
                      /\ broker'[t].wrote => reviews'[broker[t].rid].status = "cancelled"]_vars

\* A handler returned nil at the stale-commit check and its Review is cancelled.
C7_Witness ==
    \E t \in Deliveries :
        /\ broker[t].state = "returned" /\ broker[t].exit = "stale" /\ broker[t].ret = "nil"
        /\ broker[t].sha = "A" /\ head = "B"
        /\ broker[t].rid > 0
        /\ reviews[broker[t].rid].status = "cancelled"

C9_OnePerCommit ==
    \A t, u \in Deliveries :
        (t # u /\ broker[t].state # "absent" /\ broker[u].state # "absent") =>
            broker[t].sha # broker[u].sha

\* A hunt command for a commit was refused by the broker while the review
\* task for that commit was being executed.
C9_Witness ==
    \E t, u \in Deliveries :
        /\ broker[t].state = "active"
        /\ req[u].enq = "conflict" /\ req[u].sha = broker[t].sha
        /\ req[u].mode # broker[t].mode

C11_Original ==
    \A t \in Deliveries :
        (broker[t].state = "returned" /\ broker[t].exit = "cancelled") =>
            /\ broker[t].ret = "nil"
            /\ (broker[t].rid > 0 /\ broker[t].wrote) =>
                  reviews[broker[t].rid].status = "cancelled"

\* C12 (as stated): when a step of ProcessReview fails with an error the
\* orchestrator has handled (Review failed, error comment posted), the
\* handler returns success to the broker, so the task is never run again.
C12_Original ==
    \A t \in Deliveries :
        (broker[t].state = "returned" /\ broker[t].exit = "failed") =>
            /\ broker[t].ret = "nil"
            /\ HandlerReturned(broker, t)[t].state = "absent"

\* C13: an execution of ProcessReview that ends on a failed PR fetch, diff
\* fetch, file-list fetch, tool call or posting, the error not being a
\* context error, has attempted the confused reaction and the error comment,
\* has issued the update of the Review to failed (the row shows it whenever
\* the store took the write), and has made no call after the failing one: no
\* rocket reaction and no completed update.
C13_Failed ==
    \A t \in Deliveries :
        (broker[t].state = "returned" /\ broker[t].exit = "failed") =>
            /\ {"confused", "errcomment"} \subseteq broker[t].calls
            /\ "rocket" \notin broker[t].calls
            /\ broker[t].calls \ {"confused", "errcomment"} \in
                 {{"eyes", "getpr"},
                  {"eyes", "getpr", "diff"},
                  {"eyes", "getpr", "diff", "files"},
                  {"eyes", "getpr", "diff", "files", "context", "wait", "llm"},
                  {"eyes", "getpr", "diff", "files", "context", "wait", "llm", "comment"},
                  {"eyes", "getpr", "diff", "files", "context", "wait", "llm", "review", "comment"}}
            /\ broker[t].rid > 0 =>
                 /\ broker[t].upd = "failed"
                 /\ broker[t].wrote => reviews[broker[t].rid].status = "failed"

\* An execution failed at the tool call and its Review reads failed.
C13_Witness ==
    \E t \in Deliveries :
        /\ broker[t].state = "returned" /\ broker[t].exit = "failed"
        /\ "llm" \in broker[t].calls /\ "comment" \notin broker[t].calls
        /\ broker[t].rid > 0
        /\ reviews[broker[t].rid].status = "failed"

C15_Original ==
    \A t \in Deliveries :
        broker[t].state = "returned" =>
            /\ broker[t].rc > 0 => (broker[t].exit = "completed" /\ "comment" \notin broker[t].calls)
            /\ ({"review", "comment"} \subseteq broker[t].calls) => broker[t].rc = 0

\* C16 (as stated): a request whose tool call failed once with a retryable
\* error and succeeded on the in-call retry has exactly one Review row, which
\* ends completed with retry_count equal to the number of retries (>= 1).
C16_Original ==
    \A t \in Deliveries :
        (/\ broker[t].state = "returned" /\ broker[t].exit = "completed"
         /\ broker[t].llmRetries >= 1
         /\ broker[t].rid > 0 /\ broker[t].wrote) =>
            /\ Cardinality({i \in 1..Len(reviews) : reviews[i].d = t}) = 1
            /\ reviews[broker[t].rid].status = "completed"
            /\ reviews[broker[t].rid].retryCount = broker[t].llmRetries

\* C17: with max_retries = r >= 0, Retrier.Do calls the operation at least
\* once and at most r+1 times, and calls it again only after a retryable
\* failure; it returns nil at the first success, the operation's own error at
\* the first non-retryable failure, and ErrMaxRetries joined with the last
\* error exactly when all r+1 calls failed with retryable errors.
C17_Do ==
    LET n == Len(retrier.outs)
        r == retrier.cfg.maxRetries
        retryable == {"rate_limited", "rate_limited_hint", "deadline"}
    IN /\ n <= r + 1
       /\ \A i \in 1..(n - 1) : retrier.outs[i] \in retryable
       /\ retrier.pc = "done" =>
            /\ n >= 1
            /\ retrier.outs[n] = "ok" => retrier.result = <<"nil">>
            /\ retrier.outs[n] \in {"canceled", "exit_status"} => retrier.result = <<"err", n>>
            /\ (retrier.result[1] = "join") <=>
                  (n = r + 1 /\ \A i \in 1..n : retrier.outs[i] \in retryable)
            /\ retrier.result[1] = "join" => retrier.result = <<"join", "ErrMaxRetries", n>>

\* With max_retries = 2 all three calls failed with retryable errors and Do
\* returned ErrMaxRetries joined with the third error.
C17_Witness ==
    /\ retrier.pc = "done"
    /\ retrier.cfg.maxRetries = 2
    /\ retrier.result = <<"join", "ErrMaxRetries", 3>>

\* The nominal delay of the 0-based retry i: min(initial x multiplier^i, max_delay).
NominalDelay(cfg, i) == Min(cfg.initial * Pow(cfg.mult, i), cfg.maxDelay)

RECURSIVE SumDelays(_, _)
SumDelays(delays, n) == IF n = 0 THEN 0 ELSE delays[n] + SumDelays(delays, n - 1)

RECURSIVE SumNominal(_, _)
SumNominal(cfg, n) ==
    IF n = 0 THEN 0 ELSE NominalDelay(cfg, n - 1) * (JitterDen + cfg.jit) + SumNominal(cfg, n - 1)

\* The bound on the wait after the n-th call (times 10 x JitterDen): 1.1 times
\* the hinted duration when the error carries a hint, else the larger of the
\* 100 ms floor and the nominal delay times (1 + jitter_fraction).
RECURSIVE SumAmended(_, _, _)
SumAmended(cfg, outs, n) ==
    IF n = 0 THEN 0
    ELSE (IF outs[n] = "rate_limited_hint" THEN RetryAfterHint * 11 * JitterDen
          ELSE 10 * Max(MinDelay * JitterDen, NominalDelay(cfg, n - 1) * (JitterDen + cfg.jit)))
         + SumAmended(cfg, outs, n - 1)

C19_LRU ==
    [][LET E == cache.entries
           F == cache'.entries
           K == CacheKeys(cache.entries)
           L == CacheKeys(cache'.entries)
       IN /\ Cardinality(L) <= CacheMaxSize
          /\ \A k \in Prompts :
               (k \notin K /\ k \in L /\ Cardinality(K) = CacheMaxSize) =>
                  \E v \in K : /\ L = (K \ {v}) \cup {k}
                               /\ \A j \in K : E[v].accessedAt <= E[j].accessedAt
          /\ \A g \in 1..Getters :
               (/\ cache.get[g].pc = "looked" /\ cache'.get[g].pc = "done"
                /\ cache'.get[g].found
                /\ F[cache.get[g].key].oid = cache.get[g].snap.oid) =>
                  \A j \in L : F[j].accessedAt <= F[cache.get[g].key].accessedAt]_vars

\* The full cache took a third key, evicting an entry, after a Get hit had
\* made another entry the more recently accessed one.
C19_Witness ==
    /\ cache.evictions = 1 /\ cache.hits = 1
    /\ CacheKeys(cache.entries) = {"p1", "p3"}
    /\ cache.entries["p1"].accessedAt > cache.entries["p1"].createdAt

\* C20: a Get whose entry was created more than TTL before the check returns
\* not-found, adds one miss and no hit, and leaves no entry under the key; a
\* Get that returns found returns the response of an entry that was not older
\* than TTL.
C20_Expiry ==
    [][\A g \in 1..Getters :
         (cache.get[g].pc = "looked" /\ cache'.get[g].pc = "done") =>
            /\ (cache.get[g].snap.oid # 0 /\ now - cache.get[g].snap.createdAt > CacheTTL) =>
                  /\ ~cache'.get[g].found
                  /\ cache'.misses = cache.misses + 1 /\ cache'.hits = cache.hits
                  /\ cache'.entries[cache.get[g].key].oid = 0
            /\ cache'.get[g].found =>
                  /\ cache.get[g].snap.oid # 0
                  /\ now - cache.get[g].snap.createdAt <= CacheTTL
                  /\ cache'.get[g].response = cache.get[g].snap.response]_vars

\* A Get found an entry older than TTL: it reported a miss and the key is gone.
C20_Witness ==
    \E g \in 1..Getters :
        /\ cache.get[g].pc = "done" /\ ~cache.get[g].found
        /\ cache.get[g].snap.oid # 0
        /\ now - cache.get[g].snap.createdAt > CacheTTL
        /\ cache.misses = 1 /\ cache.hits = 0
        /\ cache.entries[cache.get[g].key].oid = 0

\* C21: when the broker rejects the submission in handleCommand, a duplicate
\* task makes handleCommand return nil and issue the update of the request's
\* Review row to cancelled, any other error makes it return the error and
\* issue the update to failed (the row shows the status unless the store
\* refused the write); afterwards the row never reads processing and keeps
\* the status written.
C21_EnqueueFailure ==
    [][/\ \A d \in Deliveries :
            (req[d].pc = "enqueue" /\ req'[d].pc = "done" /\ req[d].rid > 0) =>
               /\ req'[d].enq = "conflict" =>
                    /\ req'[d].ret = "nil"
                    /\ \/ reviews'[req[d].rid].status = "cancelled"
                       \/ faults' > faults /\ reviews' = reviews
               /\ req'[d].enq = "error" =>
                    /\ req'[d].ret = "err"
                    /\ \/ reviews'[req[d].rid].status = "failed"
                       \/ faults' > faults + 1 /\ reviews' = reviews
       /\ \A d \in Deliveries :
            (req[d].pc = "done" /\ req[d].enq \in {"conflict", "error"} /\ req[d].rid > 0) =>
               /\ reviews'[req[d].rid].status # "processing"
               /\ reviews'[req[d].rid].status = reviews[req[d].rid].status]_vars

\* A submission was rejected as a duplicate: handleCommand returned nil, the
\* request's Review reads cancelled, and the task that holds the ID runs.
C21_Witness ==
    \E d \in Deliveries :
        /\ req[d].pc = "done" /\ req[d].enq = "conflict" /\ req[d].ret = "nil"
        /\ req[d].rid > 0 /\ reviews[req[d].rid].status = "cancelled"
        /\ \E t \in Deliveries : broker[t].state = "active"

\* Whether and how often a call occurs in a sequence of calls.
Count(calls, name) == Cardinality({i \in 1..Len(calls) : calls[i] = name})
Has(calls, name) == Count(calls, name) > 0

\* C22: whichever store writes fail during ProcessReview, the calls made to
\* the forge (reactions, review submission with its inline comments,
\* comments), to the limiter, the cache and the tool, in their order, and the
\* value returned to the broker are those of the execution in which every
\* store write succeeds against the same answers of the collaborators.
C22_StoreIndependent ==
    run.pc = "done" =>
        LET ref == ProcessReview(run.rid, run.env, StoreAllOK)
        IN /\ run.out.calls = ref.calls
           /\ run.out.drafts = ref.drafts
           /\ run.out.ret = ref.ret

\* Every store write of a successful execution failed: the Review still
\* reads queued, the review was posted and nil returned.
C22_Witness ==
    /\ run.pc = "done" /\ run.rid = 1
    /\ run.store = [proc |-> FALSE, fin |-> FALSE, rows |-> FALSE]
    /\ Len(run.out.writes) = 2 /\ RowAfter(run.out.writes, 2) = "queued"
    /\ Has(run.out.calls, "review") /\ Has(run.out.calls, "rocket")
    /\ run.out.ret = "nil"

\* C28 (as stated): an execution whose prompt is in the response cache uses
\* the cached response without running the tool and without waiting for or
\* acquiring a limiter token.
C28_Original ==
    (run.pc = "done" /\ Has(run.out.calls, "cache_get") /\ run.env.cached) =>
        /\ ~Has(run.out.calls, "llm")
        /\ ~Has(run.out.calls, "wait")

\* C29: an execution whose Wait granted a token calls Release exactly once,
\* as its last call, on every path; an execution whose Wait failed, or that
\* never reached Wait, calls Release never.
C29_ReleaseOnce ==
    run.pc = "done" =>
        LET c == run.out.calls
            granted == Has(c, "wait") /\ run.env.wait = "ok"
        IN /\ Count(c, "wait") <= 1
           /\ Count(c, "release") = IF granted THEN 1 ELSE 0
           /\ granted => /\ c[Len(c)] = "release"
                         /\ \E i \in 1..(Len(c) - 1) : c[i] = "wait"

\* The tool failed after Wait had granted a token, the error comment was
\* attempted, and the token was released once, last.
C29_Witness ==
    /\ run.pc = "done" /\ run.rid = 1 /\ run.store.fin = FALSE
    /\ run.env.wait = "ok" /\ ~run.env.cached /\ run.env.llm = "err"
    /\ run.out.ret = "err"
    /\ Has(run.out.calls, "errcomment")
    /\ Count(run.out.calls, "release") = 1
    /\ run.out.calls[Len(run.out.calls)] = "release"

\* C30 (as stated): after a response with n parsed inline comments, n > 0
\* gives exactly one review submission carrying the n comments, and one
\* regular comment exactly when the submission failed; n = 0 gives exactly
\* one regular comment and no submission; the terminal update issued for the
\* Review is completed with bugs_found = n and comments_posted = n after a
\* successful submission or 1 after a posted regular comment, and failed
\* when the regular comment could not be posted.
C30_Original ==
    (run.pc = "done" /\ Has(run.out.calls, "cache_get")
       /\ (run.env.cached \/ run.env.llm = "ok")) =>
        LET c == run.out.calls
            n == run.env.n
            w == run.out.writes
            unposted == Has(c, "comment") /\ run.env.comment # "ok"
        IN /\ n > 0 => /\ Count(c, "review") = 1 /\ run.out.drafts = n
                       /\ Count(c, "comment") = IF run.env.review THEN 0 ELSE 1
           /\ n = 0 => Count(c, "review") = 0 /\ Count(c, "comment") = 1
           /\ run.rid > 0 =>
                /\ Len(w) = 2
                /\ w[2].status = IF unposted THEN "failed" ELSE "completed"
                /\ w[2].status = "completed" =>
                     /\ w[2].bugs = n
                     /\ w[2].posted = IF Has(c, "comment") THEN 1 ELSE n

\* C30 (amended): as stated, except that when the regular comment could not
\* be posted the terminal update is failed only for a failure other than a
\* context cancellation or deadline expiry, for which it is cancelled; the
\* row shows the terminal status whenever the store takes the write, and nil
\* is returned exactly when the result was posted.
C30_Amended ==
    (run.pc = "done" /\ Has(run.out.calls, "cache_get")
       /\ (run.env.cached \/ run.env.llm = "ok")) =>
        LET c == run.out.calls
            n == run.env.n
            w == run.out.writes
            unposted == Has(c, "comment") /\ run.env.comment # "ok"
        IN /\ n > 0 => /\ Count(c, "review") = 1 /\ run.out.drafts = n
                       /\ Count(c, "comment") = IF run.env.review THEN 0 ELSE 1
           /\ n = 0 => Count(c, "review") = 0 /\ Count(c, "comment") = 1
           /\ run.rid > 0 =>
                /\ Len(w) = 2
                /\ w[2].status = IF ~unposted THEN "completed"
                                 ELSE IF run.env.comment = "cancel" THEN "cancelled" ELSE "failed"
                /\ w[2].status = "completed" =>
                     /\ w[2].bugs = n
                     /\ w[2].posted = IF Has(c, "comment") THEN 1 ELSE n
                /\ w[2].ok => RowAfter(w, 2) = w[2].status
           /\ (run.out.ret = "nil") <=> ~unposted

\* Two inline comments were parsed, the submission failed and the context
\* was cancelled before the regular comment was posted: the Review reads
\* cancelled.
C30_Witness ==
    /\ run.pc = "done" /\ run.rid = 1 /\ run.env.n = 2
    /\ ~run.env.review /\ run.env.comment = "cancel"
    /\ Has(run.out.calls, "review") /\ Has(run.out.calls, "comment")
    /\ Len(run.out.writes) = 2
    /\ run.out.writes[2].ok
    /\ RowAfter(run.out.writes, 2) = "cancelled"

\* No line of the text begins, after trimming, with the marker.
NoLineStarts(text, marker, trim) ==
    \A i \in 1..Len(Split(text)) :
        ~HasPrefix(IF trim THEN TrimSpace(Split(text)[i]) ELSE Split(text)[i], marker)

\* C23 (as stated): for a text in which no line begins, after trimming, with
\* FILE:, whatever else it contains, ParseStructuredReview returns no
\* comments and a summary equal to the trimmed text.
C23_Original ==
    (parsed.pc = "done" /\ NoLineStarts(parsed.text, "FILE:", TRUE)) =>
        /\ parsed.comments = <<>>
        /\ parsed.summary = TrimSpace(parsed.text)

\* The triples a list of triples is expected to parse to, bodies trimmed.
Expected(list) ==
    [i \in 1..Len(list) |->
        [path |-> list[i].path, line |-> list[i].line, body |-> TrimSpace(list[i].body)]]

\* The body with its first line trimmed, then trimmed as a whole.
FirstLineTrimmed(body) ==
    LET lines == Split(body)
        rest == IF Len(lines) = 1 THEN <<>> ELSE SubSeq(body, Len(lines[1]) + 1, Len(body))
    IN TrimSpace(TrimSpace(lines[1]) \o rest)

\* C24 (as stated): a list of triples with non-empty paths and non-empty
\* bodies whose lines do not begin with FILE: or COMMENT:, rendered as
\* blocks and parsed, yields the same triples in order, bodies trimmed.
C24_Original ==
    (/\ parsed.pc = "done"
     /\ \A i \in 1..Len(parsed.triples) :
          /\ parsed.triples[i].path # <<>> /\ parsed.triples[i].body # <<>>
          /\ NoLineStarts(parsed.triples[i].body, "FILE:", FALSE)
          /\ NoLineStarts(parsed.triples[i].body, "COMMENT:", FALSE)
     /\ parsed.text = Render(parsed.triples)) =>
        parsed.comments = Expected(parsed.triples)

\* C24 (amended): a list of triples whose paths are non-empty, without
\* whitespace at either end and without line break, and whose bodies are
\* non-empty after trimming and have no line that begins, after trimming,
\* with FILE: or COMMENT:, rendered as blocks and parsed, yields the same
\* paths and lines in order, each with the body whose first line was trimmed
\* and which was then trimmed as a whole.
C24_Amended ==
    (/\ parsed.pc = "done"
     /\ \A i \in 1..Len(parsed.triples) :
          /\ parsed.triples[i].path # <<>>
          /\ TrimSpace(parsed.triples[i].path) = parsed.triples[i].path
          /\ \A k \in 1..Len(parsed.triples[i].path) : parsed.triples[i].path[k] # "\n"
          /\ TrimSpace(parsed.triples[i].body) # <<>>
          /\ NoLineStarts(parsed.triples[i].body, "FILE:", TRUE)
          /\ NoLineStarts(parsed.triples[i].body, "COMMENT:", TRUE)
     /\ parsed.text = Render(parsed.triples)) =>
        parsed.comments =
            [i \in 1..Len(parsed.triples) |->
                [path |-> parsed.triples[i].path, line |-> parsed.triples[i].line,
                 body |-> FirstLineTrimmed(parsed.triples[i].body)]]

\* Two blocks were parsed back: a path with a colon and a negative line with
\* a body of several lines, then a body whose first line ends in a blank.
C24_Witness ==
    /\ parsed.pc = "done"
    /\ parsed.triples = <<[path |-> <<"p", ":", "q">>, line |-> 0 - 3,
                           body |-> <<"b", "\n", "\n", " ", "c">>],
                          [path |-> <<"p">>, line |-> 12, body |-> <<"b", " ", "\n", "c">>]>>
    /\ Len(parsed.comments) = 2
    /\ parsed.comments[1].path = <<"p", ":", "q">> /\ parsed.comments[1].line = 0 - 3
    /\ parsed.comments[2].body = <<"b", "\n", "c">>

\* The offsets k with 0 < k <= m at which a line of the diff starts with
\* diff --git.
Boundaries(d, m) ==
    {k \in 1..m : k < Len(d) /\ d[k + 1] = "diff --git" /\ d[k] = "\n"}

\* C25: TruncateDiff(d, m) is d when len(d) <= m; otherwise it is d[0..k)
\* followed by the notice, k being the greatest offset with 0 < k <= m at
\* which a line starts with diff --git, or m when there is none; so when the
\* first file section lies within the first m bytes, the kept prefix ends
\* where a file section starts.
C25_Truncate ==
    trunc.pc = "done" =>
        LET d == trunc.diff
            m == trunc.maxSize
            B == Boundaries(d, m)
            k == IF B = {} THEN m ELSE CHOOSE b \in B : \A c \in B : c <= b
        IN /\ Len(d) <= m => trunc.out = d
           /\ Len(d) > m =>
                /\ trunc.out = SubSeq(d, 1, k) \o Notice
                /\ (d[1] = "diff --git" /\ B # {}) => d[k + 1] = "diff --git" /\ d[k] = "\n"

\* A diff of two file sections, the second starting exactly at the limit,
\* was cut at the start of the second.
C25_Witness ==
    /\ trunc.pc = "done"
    /\ trunc.diff = <<"diff --git", "x", "\n", "diff --git", "x">>
    /\ trunc.maxSize = 3
    /\ trunc.out = <<"diff --git", "x", "\n">> \o Notice

\* C26 (as stated): a Limiter configured with max_tokens = 0 never grants a
\* token: no Wait on it returns nil, a Wait ends only with the cancellation
\* error.
C26_Original ==
    (zl.pc = "ready" /\ zl.cfg = 0) => \A c \in 1..Waiters : zl.w[c] # "holding"

\* C27 (as stated): a call of Enqueue for a pull request leaves every earlier
\* job of that pull request that has not finished, in the channel or in a
\* worker, with its context cancelled, so at any time at most one job of a
\* pull request is unfinished and not cancelled.
C27_Original ==
    \A pr \in 1..QueuePRs :
        Cardinality({j \in 1..MaxJobs : /\ queue.job[j].pr = pr
                                        /\ queue.job[j].state \in {"queued", "received", "running"}
                                        /\ ~queue.job[j].cancelled}) <= 1

\* The CheckAndMark calls on the key of call j that came before it, were not
\* duplicates, and were made at most the TTL before call j.
LiveMarks(j) ==
    {i \in 1..(j - 1) : /\ dedup.marks[i].key = dedup.marks[j].key
                        /\ ~dedup.marks[i].duplicate
                        /\ dedup.marks[j].at - dedup.marks[i].at <= DedupTTL}

\* C31: CheckAndMark calls on one key, in any interleaving: a call made while
\* the entry of an earlier call is no older than the TTL is a duplicate and
\* gets that entry's completion handle, so exactly one call per entry is not a
\* duplicate; a call made when the entry is older than the TTL (or there is
\* none) is not a duplicate and stores a new entry with a handle of its own.
C31_CheckAndMark ==
    \A j \in 1..Len(dedup.marks) :
        LET m == dedup.marks[j]
        IN /\ m.duplicate = (LiveMarks(j) # {})
           /\ m.duplicate =>
                /\ m.wait # 0
                /\ \A i \in LiveMarks(j) : dedup.marks[i].done = m.wait
           /\ ~m.duplicate =>
                /\ m.wait = 0
                /\ \A i \in 1..(j - 1) : dedup.marks[i].done # m.done

\* Three calls on one key: the first stores the entry, the second is its
\* duplicate, the third comes after the TTL and replaces the entry.
C31_Witness ==
    /\ Len(dedup.marks) = 3
    /\ \A j \in 1..3 : dedup.marks[j].key = 1
    /\ ~dedup.marks[1].duplicate
    /\ dedup.marks[2].duplicate
    /\ ~dedup.marks[3].duplicate
    /\ dedup.requests[1].done = dedup.marks[3].done

\* C38 (as stated): no Complete or Fail call faults, however often and in
\* whatever order they are made for a key.
C38_Original == ~dedup.panicked

\* The requests admitted in the current half-open period (the one that made
\* the breaker half-open included) that have not recorded their result.
HalfOpenInFlight ==
    Cardinality({c \in 1..BreakerCallers :
                   cb.call[c].pc = "running" /\ cb.call[c].period = cb.period})

\* C36 (as stated): while the breaker is half-open at most MaxHalfOpen
\* admitted requests have not recorded a result, and halfOpenCount is never
\* negative.
C36_Original ==
    /\ cb.state = "half-open" => HalfOpenInFlight <= MaxHalfOpen
    /\ cb.halfOpenCount >= 0

\* Delivery d went through the deduper gate as the first of its key.
Marked(d) == req[d].pc \in {"persist", "enqueue", "done"} /\ ~req[d].dup

\* Delivery d was turned away at the deduper gate.
Dropped(d) == req[d].pc = "done" /\ req[d].dup

\* C39: the entry a delivery stored at the gate stays under its key until it
\* is older than the TTL and reads completed once handleCommand has
\* returned, whatever the outcome of the broker submission; a delivery with
\* the same key that reaches the gate within the TTL is dropped there, with no
\* Review row and no task.
C39_EntryKept ==
    \A d \in Deliveries :
        Marked(d) /\ now - req[d].at <= DedupTTL =>
            /\ requests[DedupKeyOf(req[d])].status # "absent"
            /\ requests[DedupKeyOf(req[d])].createdAt = req[d].at
            /\ req[d].pc = "done" => requests[DedupKeyOf(req[d])].status = "completed"
            /\ \A e \in Deliveries \ {d} :
                  /\ req[e].pc \in {"persist", "enqueue", "done"}
                  /\ DedupKeyOf(req[e]) = DedupKeyOf(req[d])
                  /\ req[e].at - req[d].at \in 0..DedupTTL
                  /\ ~Dropped(d)
                  => /\ Dropped(e)
                     /\ req[e].rid = 0
                     /\ broker[e].state = "absent"
                     /\ \A i \in 1..Len(reviews) : reviews[i].d # e

\* The first request's broker submission failed, no task exists, and the
\* same request made one tick later, within the TTL, was dropped at the gate.
C39_Witness ==
    \E d \in Deliveries, e \in Deliveries :
        /\ Marked(d) /\ req[d].pc = "done" /\ req[d].enq = "error"
        /\ Dropped(e)
        /\ DedupKeyOf(req[e]) = DedupKeyOf(req[d])
        /\ req[e].at = req[d].at + 1
        /\ \A x \in Deliveries : broker[x].state = "absent"

\* A task for the commit of delivery d is in the broker with another mode.
OtherModeTask(d) ==
    \E x \in Deliveries \ {d} :
        /\ broker[x].state # "absent"
        /\ broker[x].sha = req[d].sha
        /\ broker[x].mode # req[d].mode

\* C40: a request whose commit has a task of another mode in the broker went
\* through the deduper gate but submits no task: unless the broker is
\* unreachable the submission is refused as a duplicate, handleCommand
\* returns nil, and the request's own Review row is set to cancelled (unless
\* the store refuses the write).
C40_OtherMode ==
    [][\A d \in Deliveries :
          req[d].pc = "enqueue" /\ req'[d].pc = "done" /\ OtherModeTask(d) =>
              /\ ~req[d].dup
              /\ broker'[d].state = "absent"
              /\ req'[d].enq \in {"conflict", "error"}
              /\ req[d].rid # 0 => reviews[req[d].rid].d = d /\ reviews[req[d].rid].status = "queued"
              /\ req'[d].enq = "conflict" =>
                    /\ req'[d].ret = "nil"
                    /\ req[d].rid # 0 =>
                          \/ reviews'[req[d].rid].status = "cancelled"
                          \/ faults' > faults /\ reviews' = reviews]_vars

\* A hunt request for a commit whose review task is in the broker: refused,
\* its row cancelled, no task of its own.
C40_Witness ==
    \E d \in Deliveries :
        /\ req[d].pc = "done" /\ req[d].enq = "conflict"
        /\ OtherModeTask(d)
        /\ req[d].rid # 0
        /\ reviews[req[d].rid].status = "cancelled"
        /\ reviews[req[d].rid].mode = req[d].mode
        /\ broker[d].state = "absent"

\* Goroutine c is inside Wait.
InWait(c) == zl.w[c] \in {"trying", "sleeping"}

\* What Wait does to the bucket, step by step: a tryAcquire that fails leaves
\* tokens and lastRefill alone; Wait returns nil on the tryAcquire that took
\* one token from the refilled bucket; Wait returns the context's error only
\* with the context done, leaving the bucket alone.
WaitSteps ==
    \A c \in 1..Waiters :
        /\ zl.w[c] = "trying" /\ zl'.w[c] = "sleeping" =>
              zl'.tokens = zl.tokens /\ zl'.lastRefill = zl.lastRefill
        /\ InWait(c) /\ zl'.w[c] = "holding" =>
              LET tokensToAdd == (now - zl.lastRefill) \div RefillRate
              IN /\ zl.w[c] = "trying"
                 /\ zl'.tokens = Min(zl.tokens + tokensToAdd, zl.maxTokens) - 1
                 /\ zl'.tokens >= 0
        /\ InWait(c) /\ zl'.w[c] = "cancelled" =>
              zl.ctx[c] /\ zl'.tokens = zl.tokens /\ zl'.lastRefill = zl.lastRefill

InBackoffRange(cfg, n, err, d) ==
    IF err = "rate_limited_hint"
    THEN RetryAfterHint <= d /\ 10 * d <= 11 * RetryAfterHint
    ELSE /\ JitterDen * d >= Max(MinDelay * JitterDen, NominalDelay(cfg, n) * (JitterDen - cfg.jit))
         /\ JitterDen * d <= Max(MinDelay * JitterDen, NominalDelay(cfg, n) * (JitterDen + cfg.jit))

C34_Original ==
    (parsed.pc = "done" /\ parsed.bad # <<>>) =>
        parsed.comments = ParseStructuredReview(Render(parsed.triples)).comments

\* C35 (as stated): Get is atomic with respect to a Set on the same prompt:
\* the second half of a Get removes an entry only if it is the expired entry
\* its lookup found, and a hit sets the last-access time of the entry that is
\* stored under the key at that moment.
C35_Original ==
    [][\A g \in 1..Getters :
          cache.get[g].pc = "looked" /\ cache'.get[g].pc = "done" =>
              LET k == cache.get[g].key
              IN /\ (cache.entries[k].oid # 0 /\ cache'.entries[k].oid = 0) =>
                        cache.entries[k].oid = cache.get[g].snap.oid
                 /\ (cache'.get[g].found /\ cache.entries[k].oid # 0) =>
                        cache'.entries[k].accessedAt = now]_vars

\* Review row i exists and reads completed, failed or cancelled.
Settled(i) == Len(reviews) >= i /\ reviews[i].status \in {"completed", "failed", "cancelled"}

====
